---- MODULE Spec2Model ----
(***************************************************************************)
(* State-machine model of src/src/cryptostore.rs: the SQL-backed crypto    *)
(* store of matrix-sdk-statestore-sql (CryptostoreData, its caches, the    *)
(* change-set executor and the CryptoStore facade).                        *)
(*                                                                         *)
(* Conventions                                                             *)
(*   Option<T>      <<>> is None, <<v>> is Some(v)                         *)
(*   bytes          [h |-> tag, b |-> text]; h = "" for raw bytes, h = the *)
(*                  column tag for the output of StoreCipher::hash_key     *)
(*   database       committed rows, one set of rows per table; a           *)
(*                  transaction is the log of the statements executed on   *)
(*                  it, applied to the rows at commit and dropped on       *)
(*                  rollback                                               *)
(***************************************************************************)
EXTENDS Integers, Sequences, FiniteSets, TLC

VARIABLES
    cipher,      \* CryptostoreData.cipher the store is unlocked with: <<>> or <<c>>
    unlocked,    \* TRUE once the E2E state handle is installed (ensure_e2e succeeds)
    data,        \* CryptostoreData: account slot, the three caches, the two user sets
    db,          \* committed rows of every table
    task,        \* per task: the operation in flight, its position and its result
    nwrites,     \* transactional operations started so far
    nreopens     \* times the store was closed and opened again

vars == <<cipher, unlocked, data, db, task, nwrites, nreopens>>

(***************************************************************************)
(* Bounds of the model                                                     *)
(***************************************************************************)
MaxWrites == 2
MaxReopens == 1

Tasks == {"t1", "t2"}

(***************************************************************************)
(* Option                                                                  *)
(***************************************************************************)
NoneV == <<>>
Some(v) == <<v>>
IsSome(o) == Len(o) = 1
Unwrap(o) == o[1]

(***************************************************************************)
(* Domain values.  Crypto objects are records of the fields the store      *)
(* reads; their pickles are opaque bundles.                                *)
(***************************************************************************)
Raw(s) == [h |-> "", b |-> s]

Accounts ==
    { [user_id |-> "@a:s", device_id |-> "AAAA", identity_keys |-> "ikA"],
      [user_id |-> "@b:s", device_id |-> "BBBB", identity_keys |-> "ikB"] }
PrivateIdentities == {"xsign1"}
BackupVersions == {"v1"}
RecoveryKeys == {"rk1"}
Users == {"@u1:s", "@u2:s"}
SenderKeys == {"k1", "k2"}
OlmSessions == [sender_key : {"k1"}, session_id : {"s1", "s2"}]
MessageHashes == [sender_key : {"k1"}, hash : {"h1"}]
InboundSessions ==
    [room_id : {"!r1"}, sender_key : {"k1"}, session_id : {"g1"}, backed_up : BOOLEAN]
OutboundSessions == [room_id : {"!r1"}, session_id : {"o1"}]
GossipRequests ==
    [request_id : {"q1"}, request_recipient : {"@u1:s"}, info : {"i1"}, sent_out : {FALSE}]
UserIdentities == [user_id : {"@u1:s"}, rev : {1, 2}]
Devices == [user_id : {"@u1:s"}, device_id : {"D1", "D2"}, rev : {1, 2}]

\* pickle() / from_pickle(): an opaque bundle and its inverse.  from_pickle
\* fails on a bundle that is not intact.
Pickle(x) == [pickle |-> x, intact |-> TRUE]
FromPickle(p) == p.pickle

\* AccountInfo built from an account (lines 227-231 and 265-269)
AccountInfoOf(account) ==
    [user_id |-> account.user_id,
     device_id |-> account.device_id,
     identity_keys |-> account.identity_keys]

(***************************************************************************)
(* Envelope codec: CryptostoreData::encode_key / encode_value /            *)
(* decode_value.  c is the cipher field (Option).                          *)
(***************************************************************************)
EncodeKey(c, table_name, key) ==
    IF IsSome(c) THEN [h |-> table_name, b |-> key.b] ELSE key

\* plain structured serialisation whether a cipher is installed or not
encode_value_always_json(c, value) ==
    [fmt |-> "json", sealed |-> NoneV, body |-> value]

EncodeValue(c, value) ==
    IF IsSome(c)
    THEN [fmt |-> "bincode", sealed |-> c, body |-> value]
    ELSE [fmt |-> "json", sealed |-> NoneV, body |-> value]

\* Result<T>: [ok |-> TRUE, val |-> <<v>>] or [ok |-> FALSE, val |-> <<>>]
DecodeValue(c, bytes) ==
    IF IsSome(c)
    THEN IF bytes.fmt = "bincode" /\ bytes.sealed = c
         THEN [ok |-> TRUE, val |-> Some(bytes.body)]
         ELSE [ok |-> FALSE, val |-> NoneV]
    ELSE IF bytes.fmt = "json"
         THEN [ok |-> TRUE, val |-> Some(bytes.body)]
         ELSE [ok |-> FALSE, val |-> NoneV]

\* the envelope decodes and the pickle in it restores
Restores(c, bytes) ==
    /\ DecodeValue(c, bytes).ok
    /\ Unwrap(DecodeValue(c, bytes).val).intact

(***************************************************************************)
(* Backend query set.  A statement names its table, whether it upserts or  *)
(* deletes, and the bound row; upserts conflict on the table's natural key.*)
(***************************************************************************)
EmptyDb ==
    [kv |-> {}, session |-> {}, hash |-> {}, inbound |-> {}, outbound |-> {},
     gossip |-> {}, identity |-> {}, device |-> {}, tracked |-> {}]

KeyCols(table) ==
    CASE table = "kv" -> {"key"}
      [] table = "session" -> {"sender_key", "session_data"}
      [] table = "hash" -> {"sender_key", "hash"}
      [] table = "inbound" -> {"room_id", "sender_key", "session_id"}
      [] table = "outbound" -> {"room_id"}
      [] table = "gossip" -> {"request_id"}
      [] table = "identity" -> {"user_id"}
      [] table = "device" -> {"user_id", "device_id"}
      [] table = "tracked" -> {"user_id"}

SameKey(table, r1, r2) == \A col \in KeyCols(table) : r1[col] = r2[col]

\* the rows of d after statement w
Apply(d, w) ==
    LET kept == {r \in d[w.table] : ~SameKey(w.table, r, w.row)}
    IN  [d EXCEPT ![w.table] = IF w.kind = "upsert" THEN kept \cup {w.row} ELSE kept]

RECURSIVE ApplyAll(_, _)
ApplyAll(d, log) ==
    IF log = <<>> THEN d ELSE ApplyAll(Apply(d, Head(log)), Tail(log))

\* txn.commit(): every statement of the transaction becomes visible at once
commit(d, log) == ApplyAll(d, log)

\* which executor a function hands its statement to: the caller's transaction
\* (.execute(txn)) or the connection pool (.execute(&*self.db)), which commits
\* the statement on its own
pool_for_group_sessions(fn) ==
    IF fn = "save_inbound_group_session" THEN "pool" ELSE "txn"

pool_for_devices(fn) ==
    IF fn \in {"save_device", "save_tracked_user", "delete_outgoing_secret_requests"}
    THEN "pool" ELSE "txn"
executor_of(fn) ==
    IF fn \in {"save_tracked_user", "delete_outgoing_secret_requests"}
    THEN "pool" ELSE "txn"

insert_kv_txn(key, value) ==
    [table |-> "kv", kind |-> "upsert", row |-> [key |-> key, value |-> value]]

\* get_kv: Option<bytes>
get_kv(d, key) ==
    IF \E r \in d.kv : r.key = key
    THEN Some((CHOOSE r \in d.kv : r.key = key).value)
    ELSE NoneV

(***************************************************************************)
(* In-memory caches of matrix_sdk_crypto::store::caches as the store uses  *)
(* them.                                                                   *)
(*   SessionStore      sender key -> list of sessions, <<>> when the key   *)
(*                     has no entry; add() appends unless the list holds   *)
(*                     the session already                                 *)
(*   GroupSessionStore at most one session per (room, sender, session id); *)
(*                     add() replaces                                      *)
(*   DeviceStore       at most one device per (user, device id)            *)
(***************************************************************************)
NewData ==
    [account |-> NoneV,
     sessions |-> [k \in SenderKeys |-> <<>>],
     group_sessions |-> {},
     devices |-> {},
     tracked_users |-> {},
     users_for_key_query |-> {}]

InSeq(x, seq) == \E i \in DOMAIN seq : seq[i] = x

\* Vec::push with no contains() before it
SessionStore_add_without_contains(sessions, session) ==
    [sessions EXCEPT ![session.sender_key] = Append(@, session)]

SessionStore_add(sessions, session) ==
    IF InSeq(session, sessions[session.sender_key])
    THEN sessions
    ELSE [sessions EXCEPT ![session.sender_key] = Append(@, session)]

SessionStore_get(sessions, sender_key) ==
    IF sessions[sender_key] = <<>> THEN NoneV ELSE Some(sessions[sender_key])

SameGroupSession(a, b) ==
    /\ a.room_id = b.room_id
    /\ a.sender_key = b.sender_key
    /\ a.session_id = b.session_id

GroupSessionStore_add(group_sessions, session) ==
    {g \in group_sessions : ~SameGroupSession(g, session)} \cup {session}

GroupSessionStore_get(group_sessions, room_id, sender_key, session_id) ==
    LET hit == {g \in group_sessions :
                    /\ g.room_id = room_id
                    /\ g.sender_key = sender_key
                    /\ g.session_id = session_id}
    IN  IF hit = {} THEN NoneV ELSE Some(CHOOSE g \in hit : TRUE)

SameDevice(a, b) == a.user_id = b.user_id /\ a.device_id = b.device_id

DeviceStore_add(devices, device) ==
    {x \in devices : ~SameDevice(x, device)} \cup {device}

DeviceStore_remove(devices, user_id, device_id) ==
    {x \in devices : ~(x.user_id = user_id /\ x.device_id = device_id)}

(***************************************************************************)
(* Repository writers.  Each takes the cipher c, the CryptostoreData d and *)
(* its argument and yields                                                 *)
(*   pre   d at the moment the statement is issued                         *)
(*   stmt  the statement                                                   *)
(*   post  d when the function returns Ok                                  *)
(* A statement that fails returns the error with d left at pre.            *)
(***************************************************************************)
\* the account written without the AccountInfo slot being set
save_account_txn_without_info(c, d, account) ==
    [pre |-> d,
     stmt |-> insert_kv_txn("e2e_account", EncodeValue(c, Pickle(account))),
     post |-> d]

save_account_txn(c, d, account) ==
    LET d1 == [d EXCEPT !.account = Some(AccountInfoOf(account))]
    IN  [pre |-> d1,
         stmt |-> insert_kv_txn("e2e_account", EncodeValue(c, Pickle(account))),
         post |-> d1]

store_identity(c, d, identity) ==
    [pre |-> d,
     stmt |-> insert_kv_txn("private_identity", EncodeValue(c, Pickle(identity))),
     post |-> d]

store_backup_version(c, d, backup_version) ==
    [pre |-> d,
     stmt |-> insert_kv_txn("backup_version", EncodeValue(c, backup_version)),
     post |-> d]

store_recovery_key(c, d, recovery_key) ==
    [pre |-> d,
     stmt |-> insert_kv_txn("recovery_key", EncodeValue(c, recovery_key)),
     post |-> d]

save_session(c, d, session) ==
    [pre |-> d,
     stmt |-> [table |-> "session", kind |-> "upsert",
               row |-> [sender_key |-> EncodeKey(c, "cryptostore_session:sender_key",
                                                 Raw(session.sender_key)),
                        session_data |-> EncodeValue(c, Pickle(session))]],
     post |-> [d EXCEPT !.sessions = SessionStore_add(@, session)]]

\* no ensure_e2e, no key blinding: the hash is bound as it is
save_message_hash(c, d, message_hash) ==
    [pre |-> d,
     stmt |-> [table |-> "hash", kind |-> "upsert",
               row |-> [sender_key |-> Raw(message_hash.sender_key),
                        hash |-> Raw(message_hash.hash)]],
     post |-> d]

save_inbound_group_session(c, d, session) ==
    [pre |-> d,
     stmt |-> [table |-> "inbound", kind |-> "upsert",
               row |-> [room_id |-> EncodeKey(c, "cryptostore_inbound_group_session:room_id",
                                              Raw(session.room_id)),
                        sender_key |-> EncodeKey(c, "cryptostore_inbound_group_session:sender_key",
                                                 Raw(session.sender_key)),
                        session_id |-> EncodeKey(c, "cryptostore_inbound_group_session:session_id",
                                                 Raw(session.session_id)),
                        session_data |-> EncodeValue(c, Pickle(session))]],
     post |-> [d EXCEPT !.group_sessions = GroupSessionStore_add(@, session)]]

\* keyed by the session id instead of the room id
save_outbound_group_session_per_session(c, d, session) ==
    [pre |-> d,
     stmt |-> [table |-> "outbound", kind |-> "upsert",
               row |-> [room_id |-> EncodeKey(c, "cryptostore_inbound_group_session:room_id",
                                              Raw(session.session_id)),
                        session_data |-> EncodeValue(c, Pickle(session))]],
     post |-> d]

save_outbound_group_session(c, d, session) ==
    [pre |-> d,
     stmt |-> [table |-> "outbound", kind |-> "upsert",
               row |-> [room_id |-> EncodeKey(c, "cryptostore_inbound_group_session:room_id",
                                              Raw(session.room_id)),
                        session_data |-> EncodeValue(c, Pickle(session))]],
     post |-> d]

save_gossip_request(c, d, request) ==
    [pre |-> d,
     stmt |-> [table |-> "gossip", kind |-> "upsert",
               row |-> [recipient_id |-> EncodeKey(c, "cryptostore_gossip_request:recipient_id",
                                                   Raw(request.request_recipient)),
                        request_id |-> EncodeKey(c, "cryptostore_gossip_request:request_id",
                                                 Raw(request.request_id)),
                        info_key |-> EncodeKey(c, "cryptostore_gossip_request:info_key",
                                               Raw(request.info)),
                        sent_out |-> request.sent_out,
                        gossip_data |-> EncodeValue(c, request)]],
     post |-> d]

save_crypto_identity(c, d, identity) ==
    [pre |-> d,
     stmt |-> [table |-> "identity", kind |-> "upsert",
               row |-> [user_id |-> EncodeKey(c, "cryptostore_identity:user_id",
                                              Raw(identity.user_id)),
                        identity_data |-> EncodeValue(c, identity)]],
     post |-> d]

save_device(c, d, device) ==
    [pre |-> d,
     stmt |-> [table |-> "device", kind |-> "upsert",
               row |-> [user_id |-> EncodeKey(c, "cryptostore_device:user_id",
                                              Raw(device.user_id)),
                        device_id |-> EncodeKey(c, "cryptostore_device:device_id",
                                                Raw(device.device_id)),
                        device_info |-> EncodeValue(c, device)]],
     post |-> [d EXCEPT !.devices = DeviceStore_add(@, device)]]

delete_device(c, d, device) ==
    [pre |-> d,
     stmt |-> [table |-> "device", kind |-> "delete",
               row |-> [user_id |-> EncodeKey(c, "cryptostore_device:user_id",
                                              Raw(device.user_id)),
                        device_id |-> EncodeKey(c, "cryptostore_device:device_id",
                                                Raw(device.device_id))]],
     post |-> [d EXCEPT !.devices = DeviceStore_remove(@, device.user_id, device.device_id)]]

\* the dirty flag persisted as true whatever the call was given
save_tracked_user_always_dirty(c, d, tracked_user, dirty) ==
    [pre |-> d,
     stmt |-> [table |-> "tracked", kind |-> "upsert",
               row |-> [user_id |-> EncodeKey(c, "cryptostore_tracked_user:user_id",
                                              Raw(tracked_user)),
                        tracked_user_data |->
                            EncodeValue(c, [user_id |-> tracked_user, dirty |-> TRUE])]],
     post |-> d]

save_tracked_user(c, d, tracked_user, dirty) ==
    [pre |-> d,
     stmt |-> [table |-> "tracked", kind |-> "upsert",
               row |-> [user_id |-> EncodeKey(c, "cryptostore_tracked_user:user_id",
                                              Raw(tracked_user)),
                        tracked_user_data |->
                            EncodeValue(c, [user_id |-> tracked_user, dirty |-> dirty])]],
     post |-> d]

\* does the writer start with ensure_e2e()?  Every one but save_message_hash
no_ensure_e2e_in_save_device(fn) == fn \notin {"save_message_hash", "save_device"}
calls_ensure_e2e(fn) == fn # "save_message_hash"

\* a call [fn, field, arg] dispatched to its function
Invoke(c, d, call) ==
    CASE call.fn = "save_account_txn" -> save_account_txn(c, d, call.arg)
      [] call.fn = "store_identity" -> store_identity(c, d, call.arg)
      [] call.fn = "store_backup_version" -> store_backup_version(c, d, call.arg)
      [] call.fn = "store_recovery_key" -> store_recovery_key(c, d, call.arg)
      [] call.fn = "save_session" -> save_session(c, d, call.arg)
      [] call.fn = "save_message_hash" -> save_message_hash(c, d, call.arg)
      [] call.fn = "save_inbound_group_session" -> save_inbound_group_session(c, d, call.arg)
      [] call.fn = "save_outbound_group_session" -> save_outbound_group_session(c, d, call.arg)
      [] call.fn = "save_gossip_request" -> save_gossip_request(c, d, call.arg)
      [] call.fn = "save_crypto_identity" -> save_crypto_identity(c, d, call.arg)
      [] call.fn = "save_device" -> save_device(c, d, call.arg)
      [] call.fn = "delete_device" -> delete_device(c, d, call.arg)

(***************************************************************************)
(* Changes and the order in which save_changes_txn walks it                *)
(***************************************************************************)
EmptyChanges ==
    [account |-> NoneV, private_identity |-> NoneV,
     backup_version |-> NoneV, recovery_key |-> NoneV,
     sessions |-> <<>>, message_hashes |-> <<>>,
     inbound_group_sessions |-> <<>>, outbound_group_sessions |-> <<>>,
     key_requests |-> <<>>,
     identities |-> [new |-> <<>>, changed |-> <<>>],
     devices |-> [new |-> <<>>, changed |-> <<>>, deleted |-> <<>>]]

\* one call per element of a field, in the field's order
Calls(fn, field, items) ==
    [i \in DOMAIN items |-> [fn |-> fn, arg |-> items[i], field |-> field]]

save_changes_txn_devices_first(changes) ==
    Calls("save_account_txn", "account", changes.account)
    \o Calls("store_identity", "private_identity", changes.private_identity)
    \o Calls("store_backup_version", "backup_version", changes.backup_version)
    \o Calls("store_recovery_key", "recovery_key", changes.recovery_key)
    \o Calls("save_session", "sessions", changes.sessions)
    \o Calls("save_message_hash", "message_hashes", changes.message_hashes)
    \o Calls("save_inbound_group_session", "inbound_group_sessions",
             changes.inbound_group_sessions)
    \o Calls("save_outbound_group_session", "outbound_group_sessions",
             changes.outbound_group_sessions)
    \o Calls("save_gossip_request", "key_requests", changes.key_requests)
    \o Calls("delete_device", "devices.deleted", changes.devices.deleted)
    \o Calls("save_device", "devices.changed", changes.devices.changed)
    \o Calls("save_device", "devices.new", changes.devices.new)
    \o Calls("save_crypto_identity", "identities.changed", changes.identities.changed)
    \o Calls("save_crypto_identity", "identities.new", changes.identities.new)

\* the calls save_changes_txn makes for a batch, in program order
save_changes_txn(changes) ==
    Calls("save_account_txn", "account", changes.account)
    \o Calls("store_identity", "private_identity", changes.private_identity)
    \o Calls("store_backup_version", "backup_version", changes.backup_version)
    \o Calls("store_recovery_key", "recovery_key", changes.recovery_key)
    \o Calls("save_session", "sessions", changes.sessions)
    \o Calls("save_message_hash", "message_hashes", changes.message_hashes)
    \o Calls("save_inbound_group_session", "inbound_group_sessions",
             changes.inbound_group_sessions)
    \o Calls("save_outbound_group_session", "outbound_group_sessions",
             changes.outbound_group_sessions)
    \o Calls("save_gossip_request", "key_requests", changes.key_requests)
    \o Calls("save_crypto_identity", "identities.changed", changes.identities.changed)
    \o Calls("save_crypto_identity", "identities.new", changes.identities.new)
    \o Calls("save_device", "devices.changed", changes.devices.changed)
    \o Calls("save_device", "devices.new", changes.devices.new)
    \o Calls("delete_device", "devices.deleted", changes.devices.deleted)

(***************************************************************************)
(* Batches the runtime hands to save_changes: the empty batch, every batch *)
(* of one entity, and one batch that fills every field.                    *)
(***************************************************************************)
AccountA == [user_id |-> "@a:s", device_id |-> "AAAA", identity_keys |-> "ikA"]
DeviceOf(device_id, rev) == [user_id |-> "@u1:s", device_id |-> device_id, rev |-> rev]
IdentityOf(rev) == [user_id |-> "@u1:s", rev |-> rev]
SessionOf(session_id) == [sender_key |-> "k1", session_id |-> session_id]
GroupSessionOf(session_id, backed_up) ==
    [room_id |-> "!r1", sender_key |-> "k1", session_id |-> session_id,
     backed_up |-> backed_up]

FullChanges ==
    [account |-> Some(AccountA), private_identity |-> Some("xsign1"),
     backup_version |-> Some("v1"), recovery_key |-> Some("rk1"),
     sessions |-> <<SessionOf("s1")>>,
     message_hashes |-> <<[sender_key |-> "k1", hash |-> "h1"]>>,
     inbound_group_sessions |-> <<GroupSessionOf("g1", FALSE)>>,
     outbound_group_sessions |-> <<[room_id |-> "!r1", session_id |-> "o1"]>>,
     key_requests |-> <<[request_id |-> "q1", request_recipient |-> "@u1:s",
                         info |-> "i1", sent_out |-> FALSE]>>,
     identities |-> [new |-> <<IdentityOf(2)>>, changed |-> <<IdentityOf(1)>>],
     devices |-> [new |-> <<DeviceOf("D1", 2)>>, changed |-> <<DeviceOf("D1", 1)>>,
                  deleted |-> <<DeviceOf("D2", 1)>>]]

SingleChanges ==
    {[EmptyChanges EXCEPT !.account = Some(a)] : a \in Accounts}
    \cup {[EmptyChanges EXCEPT !.sessions = <<x>>] : x \in OlmSessions}
    \cup {[EmptyChanges EXCEPT !.message_hashes = <<x>>] : x \in MessageHashes}
    \cup {[EmptyChanges EXCEPT !.inbound_group_sessions = <<x>>] : x \in InboundSessions}
    \cup {[EmptyChanges EXCEPT !.devices.new = <<DeviceOf("D2", 1)>>]}
    \cup {[EmptyChanges EXCEPT !.devices.deleted = <<DeviceOf("D2", 1)>>]}

ChangesInputs == {EmptyChanges, FullChanges} \cup SingleChanges

(***************************************************************************)
(* Repository readers.  Each yields the result of the call and the         *)
(* CryptostoreData it leaves: [status, err, val, data].                    *)
(***************************************************************************)
Ok(v, d) == [status |-> "Ok", err |-> "", val |-> <<v>>, data |-> d]
Err(e, d) == [status |-> "Err", err |-> e, val |-> <<>>, data |-> d]

load_account(c, d, rows) ==
    LET found == get_kv(rows, "e2e_account")
    IN  IF ~IsSome(found) THEN Ok(NoneV, d)
        ELSE LET dec == DecodeValue(c, Unwrap(found))
             IN  IF ~dec.ok THEN Err("Envelope", d)
                 ELSE IF ~Unwrap(dec.val).intact THEN Err("Pickle", d)
                 ELSE LET account == FromPickle(Unwrap(dec.val))
                      IN  Ok(Some(account),
                             [d EXCEPT !.account = Some(AccountInfoOf(account))])

load_identity(c, d, rows) ==
    LET found == get_kv(rows, "private_identity")
    IN  IF ~IsSome(found) THEN Ok(NoneV, d)
        ELSE LET dec == DecodeValue(c, Unwrap(found))
             IN  IF ~dec.ok THEN Err("Envelope", d)
                 ELSE IF ~Unwrap(dec.val).intact THEN Err("Sign", d)
                 ELSE Ok(Some(FromPickle(Unwrap(dec.val))), d)

\* one Option per key-value row, decoded
load_backup_key(c, rows, key) ==
    LET found == get_kv(rows, key)
    IN  IF ~IsSome(found) THEN [ok |-> TRUE, val |-> NoneV]
        ELSE LET dec == DecodeValue(c, Unwrap(found))
             IN  [ok |-> dec.ok, val |-> dec.val]

load_backup_keys(c, d, rows) ==
    LET backup_version == load_backup_key(c, rows, "backup_version")
        recovery_key == load_backup_key(c, rows, "recovery_key")
    IN  IF ~backup_version.ok \/ ~recovery_key.ok THEN Err("Envelope", d)
        ELSE Ok([recovery_key |-> recovery_key.val,
                 backup_version |-> backup_version.val], d)

\* the rows sessions_for_user_query returns for a sender key
session_rows(c, rows, sender_key) ==
    {r \in rows.session :
        r.sender_key = EncodeKey(c, "cryptostore_session:sender_key", Raw(sender_key))}

\* the while loop of get_sessions over the fetched rows, in the order fetched
RECURSIVE add_fetched_sessions(_, _, _)
add_fetched_sessions(c, sessions, fetched) ==
    IF fetched = <<>> THEN sessions
    ELSE LET dec == DecodeValue(c, Head(fetched).session_data)
         IN  IF ~dec.ok THEN sessions
             ELSE add_fetched_sessions(
                      c, SessionStore_add(sessions, FromPickle(Unwrap(dec.val))),
                      Tail(fetched))

\* get_sessions when the rows arrive in the order of fetched and the stream
\* fails after `done` of them (done = Len(fetched) and failed = FALSE: no failure)
get_sessions(c, d, sender_key, fetched, done, failed) ==
    IF IsSome(SessionStore_get(d.sessions, sender_key))
    THEN Ok(SessionStore_get(d.sessions, sender_key), d)
    ELSE IF ~IsSome(d.account) THEN Err("MissingAccountInfo", d)
    ELSE LET d1 == [d EXCEPT !.sessions =
                        add_fetched_sessions(c, @, SubSeq(fetched, 1, done))]
         IN  IF failed THEN Err("Backend", d1)
             ELSE IF \E i \in DOMAIN fetched : ~DecodeValue(c, fetched[i].session_data).ok
             THEN Err("Envelope", d1)
             ELSE Ok(SessionStore_get(d1.sessions, sender_key), d1)

get_inbound_group_session(c, d, rows, room_id, sender_key, session_id) ==
    LET cached == GroupSessionStore_get(d.group_sessions, room_id, sender_key, session_id)
        found == {r \in rows.inbound :
                    /\ r.room_id = EncodeKey(c, "cryptostore_inbound_group_session:room_id",
                                             Raw(room_id))
                    /\ r.sender_key = EncodeKey(c, "cryptostore_inbound_group_session:sender_key",
                                                Raw(sender_key))
                    /\ r.session_id = EncodeKey(c, "cryptostore_inbound_group_session:session_id",
                                                Raw(session_id))}
    IN  IF IsSome(cached) THEN Ok(cached, d)
        ELSE IF found = {} THEN Ok(NoneV, d)
        ELSE LET dec == DecodeValue(c, (CHOOSE r \in found : TRUE).session_data)
             IN  IF ~dec.ok THEN Err("Envelope", d)
                 ELSE IF ~Unwrap(dec.val).intact THEN Err("Pickle", d)
                 ELSE LET session == FromPickle(Unwrap(dec.val))
                      IN  Ok(Some(session),
                             [d EXCEPT !.group_sessions = GroupSessionStore_add(@, session)])

get_outbound_group_sessions_own_tag(c, d, rows, room_id) ==
    LET found == {r \in rows.outbound :
                    r.room_id = EncodeKey(c, "cryptostore_outbound_group_session:room_id",
                                          Raw(room_id))}
    IN  IF ~IsSome(d.account) THEN Err("MissingAccountInfo", d)
        ELSE IF found = {} THEN Ok(NoneV, d)
        ELSE LET dec == DecodeValue(c, (CHOOSE r \in found : TRUE).session_data)
             IN  IF ~dec.ok THEN Err("Envelope", d)
                 ELSE IF ~Unwrap(dec.val).intact THEN Err("Pickle", d)
                 ELSE Ok(Some(FromPickle(Unwrap(dec.val))), d)

get_outbound_group_sessions(c, d, rows, room_id) ==
    LET found == {r \in rows.outbound :
                    r.room_id = EncodeKey(c, "cryptostore_inbound_group_session:room_id",
                                          Raw(room_id))}
    IN  IF ~IsSome(d.account) THEN Err("MissingAccountInfo", d)
        ELSE IF found = {} THEN Ok(NoneV, d)
        ELSE LET dec == DecodeValue(c, (CHOOSE r \in found : TRUE).session_data)
             IN  IF ~dec.ok THEN Err("Envelope", d)
                 ELSE IF ~Unwrap(dec.val).intact THEN Err("Pickle", d)
                 ELSE Ok(Some(FromPickle(Unwrap(dec.val))), d)

get_device(c, d, rows, user_id, device_id) ==
    LET found == {r \in rows.device :
                    /\ r.user_id = EncodeKey(c, "cryptostore_device:user_id", Raw(user_id))
                    /\ r.device_id = EncodeKey(c, "cryptostore_device:device_id",
                                               Raw(device_id))}
    IN  IF found = {} THEN Ok(NoneV, d)
        ELSE LET dec == DecodeValue(c, (CHOOSE r \in found : TRUE).device_info)
             IN  IF ~dec.ok THEN Err("Envelope", d) ELSE Ok(dec.val, d)

\* a query answering every row of the table
devices_for_any_user(c, rows, user_id) == rows.device

\* devices_for_user_query bound to the encoded user id
devices_for_user(c, rows, user_id) ==
    {r \in rows.device :
        r.user_id = EncodeKey(c, "cryptostore_device:user_id", Raw(user_id))}

\* HashMap::insert
HashMap_insert(map, key, value) ==
    [k \in DOMAIN map \cup {key} |-> IF k = key THEN value ELSE map[k]]

\* the while loop of get_user_devices over the rows as the stream yields them
RECURSIVE collect_devices(_, _, _)
collect_devices(c, fetched, devices) ==
    IF fetched = <<>> THEN [ok |-> TRUE, val |-> devices]
    ELSE LET dec == DecodeValue(c, Head(fetched).device_info)
         IN  IF ~dec.ok THEN [ok |-> FALSE, val |-> devices]
             ELSE LET device == Unwrap(dec.val)
                  IN  collect_devices(c, Tail(fetched),
                                      HashMap_insert(devices, device.device_id, device))

get_user_devices(c, d, fetched) ==
    LET r == collect_devices(c, fetched, [k \in {} |-> k])
    IN  IF r.ok THEN Ok(r.val, d) ELSE Err("Envelope", d)

get_user_identity(c, d, rows, user_id) ==
    LET found == {r \in rows.identity :
                    r.user_id = EncodeKey(c, "cryptostore_identity:user_id", Raw(user_id))}
    IN  IF found = {} THEN Ok(NoneV, d)
        ELSE LET dec == DecodeValue(c, (CHOOSE r \in found : TRUE).identity_data)
             IN  IF ~dec.ok THEN Err("Envelope", d) ELSE Ok(dec.val, d)

is_message_known_by_hash_only(d, rows, message_hash) ==
    Ok(\E r \in rows.hash : r.hash = Raw(message_hash.hash), d)

is_message_known(d, rows, message_hash) ==
    Ok(\E r \in rows.hash :
           /\ r.sender_key = Raw(message_hash.sender_key)
           /\ r.hash = Raw(message_hash.hash),
       d)

get_outgoing_key_request(c, d, rows, id) ==
    LET found == {r \in rows.gossip :
                    r.request_id = EncodeKey(c, "cryptostore_gossip_request:request_id",
                                             Raw(id))}
    IN  IF found = {} THEN Ok(NoneV, d)
        ELSE LET dec == DecodeValue(c, (CHOOSE r \in found : TRUE).gossip_data)
             IN  IF ~dec.ok THEN Err("Envelope", d) ELSE Ok(dec.val, d)

(***************************************************************************)
(* Tasks.  A transactional operation (save_changes, save_account,          *)
(* reset_backup_state) is in flight from begin() to commit(): plan holds   *)
(* the calls still to make, txn the statements executed on its transaction.*)
(* Every await is a point where the statement can fail or the future can   *)
(* be dropped.  A finished call keeps its result until the caller takes    *)
(* it.  locked, db0 and data0 record the store as the call found it.       *)
(***************************************************************************)
Idle ==
    [op |-> "idle", pc |-> "idle", arg |-> <<>>, plan |-> <<>>, txn |-> <<>>,
     status |-> "", err |-> "", val |-> <<>>,
     locked |-> FALSE, db0 |-> <<>>, data0 |-> <<>>]

Running(op, arg, plan) ==
    [op |-> op, pc |-> "txn", arg |-> arg, plan |-> plan, txn |-> <<>>,
     status |-> "", err |-> "", val |-> <<>>,
     locked |-> ~unlocked, db0 |-> <<db>>, data0 |-> <<data>>]

\* a call that ran to its end in one step
Done(op, arg, out) ==
    [op |-> op, pc |-> "done", arg |-> arg, plan |-> <<>>, txn |-> <<>>,
     status |-> out.status, err |-> out.err, val |-> out.val,
     locked |-> ~unlocked, db0 |-> <<db>>, data0 |-> <<data>>]

Finished(tk, status, err) ==
    [tk EXCEPT !.pc = "done", !.status = status, !.err = err]

IsIdle(t) == task[t].pc = "idle"
InFlight(t) == task[t].pc = "txn"
IsDone(t) == task[t].pc = "done"
AllIdle == \A t \in Tasks : IsIdle(t)

\* every way of listing the elements of a finite set
Orderings(S) ==
    {f \in [1..Cardinality(S) -> S] : \A i, j \in 1..Cardinality(S) : f[i] = f[j] => i = j}

Init ==
    /\ cipher \in {NoneV, Some("c1")}
    /\ unlocked = FALSE
    /\ data = NewData
    /\ db = EmptyDb
    /\ task = [t \in Tasks |-> Idle]
    /\ nwrites = 0
    /\ nreopens = 0

(***************************************************************************)
(* Bootstrap: unlock installs the E2E state and runs load_tracked_users;   *)
(* closing the store drops the process memory and keeps the database.      *)
(***************************************************************************)
RECURSIVE load_tracked_users(_, _, _)
load_tracked_users(c, d, fetched) ==
    IF fetched = <<>> THEN d
    ELSE LET dec == DecodeValue(c, Head(fetched).tracked_user_data)
         IN  IF ~dec.ok THEN d
             ELSE LET user == Unwrap(dec.val)
                      d1 == [d EXCEPT !.tracked_users = @ \cup {user.user_id}]
                      d2 == IF user.dirty
                            THEN [d1 EXCEPT !.users_for_key_query = @ \cup {user.user_id}]
                            ELSE d1
                  IN  load_tracked_users(c, d2, Tail(fetched))

Unlock ==
    /\ ~unlocked
    /\ AllIdle
    /\ unlocked' = TRUE
    /\ \E fetched \in Orderings(db.tracked) :
         \E done \in 0..Len(fetched) :
            data' = load_tracked_users(cipher, NewData, SubSeq(fetched, 1, done))
    /\ UNCHANGED <<cipher, db, task, nwrites, nreopens>>

Reopen ==
    /\ nreopens < MaxReopens
    /\ unlocked
    /\ nreopens' = nreopens + 1
    /\ unlocked' = FALSE
    /\ data' = NewData
    /\ task' = [t \in Tasks |-> Idle]
    /\ UNCHANGED <<cipher, db, nwrites>>

(***************************************************************************)
(* Transactional operations                                                *)
(***************************************************************************)
\* begin() of a transactional operation: it fails, or the operation is in flight
Begin(t, op, arg, plan) ==
    /\ IsIdle(t)
    /\ nwrites < MaxWrites
    /\ nwrites' = nwrites + 1
    /\ \E begun \in BOOLEAN :
         task' = [task EXCEPT ![t] =
                    IF begun THEN Running(op, arg, plan)
                    ELSE Finished(Running(op, arg, <<>>), "Err", "Backend")]
    /\ UNCHANGED <<cipher, unlocked, data, db, nreopens>>

SaveChanges(t) ==
    \E changes \in ChangesInputs :
        Begin(t, "save_changes", <<changes>>, save_changes_txn(changes))

SaveAccount(t) ==
    \E account \in Accounts :
        Begin(t, "save_account", <<account>>,
              Calls("save_account_txn", "account", <<account>>))

\* reset_backup_state up to the end of try_collect: the sessions read on the
\* transaction, each with its backed-up flag cleared, are the saves to make
ResetBackupState(t) ==
    /\ IsIdle(t)
    /\ nwrites < MaxWrites
    /\ nwrites' = nwrites + 1
    /\ \E begun \in BOOLEAN, fetched \in Orderings(db.inbound), collected \in BOOLEAN :
         LET sessions == [i \in DOMAIN fetched |->
                            [FromPickle(Unwrap(DecodeValue(cipher, fetched[i].session_data).val))
                                EXCEPT !.backed_up = FALSE]]
             decodes == \A i \in DOMAIN fetched :
                            Restores(cipher, fetched[i].session_data)
             started == Running("reset_backup_state", <<>>, <<>>)
         IN  task' = [task EXCEPT ![t] =
                        IF ~begun THEN Finished(started, "Err", "Backend")
                        ELSE IF ~unlocked THEN Finished(started, "Err", "Locked")
                        ELSE IF ~collected THEN Finished(started, "Err", "Backend")
                        ELSE IF ~decodes THEN Finished(started, "Err", "Envelope")
                        ELSE Running("reset_backup_state", <<>>,
                                     Calls("save_inbound_group_session",
                                           "inbound_group_sessions", sessions))]
    /\ UNCHANGED <<cipher, unlocked, data, db, nreopens>>

\* the next call of the plan: Locked, or its statement runs or fails
TxnStep(t) ==
    /\ InFlight(t)
    /\ task[t].plan # <<>>
    /\ LET call == Head(task[t].plan)
           r == Invoke(cipher, data, call)
           entry == [table |-> r.stmt.table, row |-> r.stmt.row, kind |-> r.stmt.kind,
                     fn |-> call.fn, field |-> call.field]
       IN  IF calls_ensure_e2e(call.fn) /\ ~unlocked
           THEN /\ task' = [task EXCEPT ![t] = Finished(@, "Err", "Locked")]
                /\ UNCHANGED <<data, db>>
           ELSE \E ok \in BOOLEAN :
                  IF ~ok
                  THEN /\ data' = r.pre
                       /\ task' = [task EXCEPT ![t] = Finished(@, "Err", "Backend")]
                       /\ UNCHANGED db
                  ELSE /\ data' = r.post
                       /\ IF executor_of(call.fn) = "txn"
                          THEN /\ task' = [task EXCEPT ![t].plan = Tail(@),
                                                       ![t].txn = Append(@, entry)]
                               /\ UNCHANGED db
                          ELSE /\ task' = [task EXCEPT ![t].plan = Tail(@)]
                               /\ db' = Apply(db, entry)
    /\ UNCHANGED <<cipher, unlocked, nwrites, nreopens>>

\* txn.commit() after the last call
TxnCommit(t) ==
    /\ InFlight(t)
    /\ task[t].plan = <<>>
    /\ \E ok \in BOOLEAN :
         IF ok
         THEN /\ db' = commit(db, task[t].txn)
              /\ task' = [task EXCEPT ![t] = Finished(@, "Ok", "")]
         ELSE /\ UNCHANGED db
              /\ task' = [task EXCEPT ![t] = Finished(@, "Err", "Backend")]
    /\ UNCHANGED <<cipher, unlocked, data, nwrites, nreopens>>

\* the future is dropped before commit: the open transaction rolls back
Drop(t) ==
    /\ InFlight(t)
    /\ task' = [task EXCEPT ![t] = Finished(@, "Dropped", "")]
    /\ UNCHANGED <<cipher, unlocked, data, db, nwrites, nreopens>>

\* the caller takes the result
Return(t) ==
    /\ IsDone(t)
    /\ task' = [task EXCEPT ![t] = Idle]
    /\ UNCHANGED <<cipher, unlocked, data, db, nwrites, nreopens>>

(***************************************************************************)
(* Reads.  Each runs from its ensure_e2e() to its return in one step; the  *)
(* query can fail.                                                         *)
(***************************************************************************)
\* a read that starts with ensure_e2e() and then queries the pool
\* a read that clears the key-value rows it went through
Read_clearing(t, op, arg, r) ==
    /\ IsIdle(t)
    /\ \E io_ok \in BOOLEAN :
         LET out == IF ~unlocked THEN Err("Locked", data)
                    ELSE IF ~io_ok THEN Err("Backend", data)
                    ELSE r
         IN  /\ task' = [task EXCEPT ![t] = Done(op, arg, out)]
             /\ data' = out.data
    /\ db' = [db EXCEPT !.kv = {}]
    /\ UNCHANGED <<cipher, unlocked, nwrites, nreopens>>

Read(t, op, arg, r) ==
    /\ IsIdle(t)
    /\ \E io_ok \in BOOLEAN :
         LET out == IF ~unlocked THEN Err("Locked", data)
                    ELSE IF ~io_ok THEN Err("Backend", data)
                    ELSE r
         IN  /\ task' = [task EXCEPT ![t] = Done(op, arg, out)]
             /\ data' = out.data
    /\ UNCHANGED <<cipher, unlocked, db, nwrites, nreopens>>

LoadAccount(t) == Read(t, "load_account", <<>>, load_account(cipher, data, db))

LoadIdentity(t) == Read(t, "load_identity", <<>>, load_identity(cipher, data, db))

LoadBackupKeys(t) == Read(t, "load_backup_keys", <<>>, load_backup_keys(cipher, data, db))

GetSessions(t) ==
    /\ IsIdle(t)
    /\ \E sender_key \in SenderKeys :
       \E fetched \in Orderings(session_rows(cipher, db, sender_key)) :
       \E done \in 0..Len(fetched), failed \in BOOLEAN :
         /\ ~failed => done = Len(fetched)
         /\ LET out == IF ~unlocked THEN Err("Locked", data)
                       ELSE get_sessions(cipher, data, sender_key, fetched, done, failed)
            IN  /\ task' = [task EXCEPT ![t] = Done("get_sessions", <<sender_key>>, out)]
                /\ data' = out.data
    /\ UNCHANGED <<cipher, unlocked, db, nwrites, nreopens>>

\* a session in the cache is returned before any query is made
GetInboundGroupSession(t) ==
    /\ IsIdle(t)
    /\ \E g \in InboundSessions, io_ok \in BOOLEAN :
         LET r == get_inbound_group_session(cipher, data, db,
                                            g.room_id, g.sender_key, g.session_id)
             cached == GroupSessionStore_get(data.group_sessions,
                                             g.room_id, g.sender_key, g.session_id)
             out == IF ~unlocked THEN Err("Locked", data)
                    ELSE IF ~io_ok /\ ~IsSome(cached) THEN Err("Backend", data)
                    ELSE r
         IN  /\ task' = [task EXCEPT ![t] =
                            Done("get_inbound_group_session",
                                 <<g.room_id, g.sender_key, g.session_id>>, out)]
             /\ data' = out.data
    /\ UNCHANGED <<cipher, unlocked, db, nwrites, nreopens>>

\* the AccountInfo check comes before the query
GetOutboundGroupSessions(t) ==
    /\ IsIdle(t)
    /\ \E o \in OutboundSessions, io_ok \in BOOLEAN :
         LET r == get_outbound_group_sessions(cipher, data, db, o.room_id)
             out == IF ~unlocked THEN Err("Locked", data)
                    ELSE IF ~io_ok /\ IsSome(data.account) THEN Err("Backend", data)
                    ELSE r
         IN  /\ task' = [task EXCEPT ![t] =
                            Done("get_outbound_group_sessions", <<o.room_id>>, out)]
             /\ data' = out.data
    /\ UNCHANGED <<cipher, unlocked, db, nwrites, nreopens>>

GetDevice(t) ==
    \E x \in Devices :
        Read(t, "get_device", <<x.user_id, x.device_id>>,
             get_device(cipher, data, db, x.user_id, x.device_id))

GetUserIdentity(t) ==
    \E u \in Users :
        Read(t, "get_user_identity", <<u>>, get_user_identity(cipher, data, db, u))

GetOutgoingSecretRequests(t) ==
    \E q \in GossipRequests :
        Read(t, "get_outgoing_secret_requests", <<q.request_id>>,
             get_outgoing_key_request(cipher, data, db, q.request_id))

\* is_message_known has no ensure_e2e(): it queries whether unlocked or not
IsMessageKnown(t) ==
    /\ IsIdle(t)
    /\ \E h \in MessageHashes, io_ok \in BOOLEAN :
         LET out == IF ~io_ok THEN Err("Backend", data)
                    ELSE is_message_known(data, db, h)
         IN  task' = [task EXCEPT ![t] = Done("is_message_known", <<h>>, out)]
    /\ UNCHANGED <<cipher, unlocked, data, db, nwrites, nreopens>>

(***************************************************************************)
(* Backup accounting.  inbound_group_session_counts and                    *)
(* inbound_group_sessions_for_backup fold the stream of all rows of the    *)
(* inbound-group-session table; the stream ends with an error at the first *)
(* row that cannot be fetched (failed_at) or decoded.                      *)
(***************************************************************************)
MaxLimit == 2

\* the rows of get_inbound_group_session_stream at which the stream errs
stream_errors(c, fetched, failed_at) ==
    {i \in DOMAIN fetched :
        i = failed_at \/ ~Restores(c, fetched[i].session_data)}

\* the sessions the stream yields before its first error
stream_sessions(c, fetched, failed_at) ==
    LET bad == stream_errors(c, fetched, failed_at)
        last == IF bad = {} THEN Len(fetched)
                ELSE (CHOOSE i \in bad : \A j \in bad : i <= j) - 1
    IN  [i \in 1..last |->
            FromPickle(Unwrap(DecodeValue(c, fetched[i].session_data).val))]

stream_error(c, fetched, failed_at) ==
    LET bad == stream_errors(c, fetched, failed_at)
    IN  IF (CHOOSE i \in bad : \A j \in bad : i <= j) = failed_at
        THEN "Backend" ELSE "Envelope"

counts_every_session_backed_up(c, d, fetched, failed_at) ==
    IF stream_errors(c, fetched, failed_at) # {}
    THEN Err(stream_error(c, fetched, failed_at), d)
    ELSE Ok([total |-> Len(fetched), backed_up |-> Len(fetched)], d)

inbound_group_session_counts(c, d, fetched, failed_at) ==
    IF stream_errors(c, fetched, failed_at) # {}
    THEN Err(stream_error(c, fetched, failed_at), d)
    ELSE LET sessions == stream_sessions(c, fetched, failed_at)
         IN  Ok([total |-> Len(sessions),
                 backed_up |-> Cardinality({i \in DOMAIN sessions :
                                               sessions[i].backed_up})], d)

NotBackedUp(session) == ~session.backed_up

\* take(limit) before try_filter
for_backup_take_then_filter(c, d, fetched, limit, failed_at) ==
    LET sessions == stream_sessions(c, fetched, failed_at)
    IN  IF Len(sessions) >= limit
        THEN Ok(SelectSeq(SubSeq(sessions, 1, limit), NotBackedUp), d)
        ELSE IF stream_errors(c, fetched, failed_at) # {}
        THEN Err(stream_error(c, fetched, failed_at), d)
        ELSE Ok(SelectSeq(sessions, NotBackedUp), d)

\* try_filter, take(limit), try_collect: the stream is polled until limit
\* sessions have passed the filter, so an error behind them is never met
inbound_group_sessions_for_backup(c, d, fetched, limit, failed_at) ==
    LET wanted == SelectSeq(stream_sessions(c, fetched, failed_at), NotBackedUp)
    IN  IF Len(wanted) >= limit THEN Ok(SubSeq(wanted, 1, limit), d)
        ELSE IF stream_errors(c, fetched, failed_at) # {}
        THEN Err(stream_error(c, fetched, failed_at), d)
        ELSE Ok(wanted, d)

InboundGroupSessionCounts(t) ==
    /\ IsIdle(t)
    /\ \E fetched \in Orderings(db.inbound) :
       \E failed_at \in 0..Len(fetched) :
         LET out == IF ~unlocked THEN Err("Locked", data)
                    ELSE inbound_group_session_counts(cipher, data, fetched, failed_at)
         IN  task' = [task EXCEPT ![t] =
                        Done("inbound_group_session_counts", <<>>, out)]
    /\ UNCHANGED <<cipher, unlocked, data, db, nwrites, nreopens>>

InboundGroupSessionsForBackup(t) ==
    /\ IsIdle(t)
    /\ \E limit \in 0..MaxLimit :
       \E fetched \in Orderings(db.inbound) :
       \E failed_at \in 0..Len(fetched) :
         LET out == IF ~unlocked THEN Err("Locked", data)
                    ELSE inbound_group_sessions_for_backup(cipher, data, fetched,
                                                           limit, failed_at)
         IN  task' = [task EXCEPT ![t] =
                        Done("inbound_group_sessions_for_backup", <<limit>>, out)]
    /\ UNCHANGED <<cipher, unlocked, data, db, nwrites, nreopens>>

\* change-sets of inbound group sessions: one session, two sessions, and a
\* session saved again with its backed-up flag changed
BackupSessions ==
    [room_id : {"!r1"}, sender_key : {"k1"}, session_id : {"g1", "g2"},
     backed_up : BOOLEAN]

BackupChanges ==
    {[EmptyChanges EXCEPT !.inbound_group_sessions = <<x>>] : x \in BackupSessions}
    \cup {[EmptyChanges EXCEPT !.inbound_group_sessions = <<p[1], p[2]>>] :
            p \in {q \in BackupSessions \X BackupSessions :
                      /\ q[1].session_id = "g1"
                      /\ q[2].session_id = "g2" \/ q[2].backed_up # q[1].backed_up}}

SaveGroupSessions(t) ==
    \E changes \in BackupChanges :
        Begin(t, "save_changes", <<changes>>, save_changes_txn(changes))

(***************************************************************************)
(* Gossip requests.  A row is keyed by its request id and carries the      *)
(* info key and the sent-out flag as further columns.                      *)
(***************************************************************************)
GossipInputs ==
    [request_id : {"q1", "q2"}, request_recipient : {"@u1:s"}, info : {"i1", "i2"},
     sent_out : BOOLEAN]

GossipChanges == {[EmptyChanges EXCEPT !.key_requests = <<x>>] : x \in GossipInputs}

SaveGossipRequests(t) ==
    \E changes \in GossipChanges :
        Begin(t, "save_changes", <<changes>>, save_changes_txn(changes))

\* the rows gossip_request_info_fetch_query matches
info_rows(c, rows, key_info) ==
    {r \in rows.gossip :
        r.info_key = EncodeKey(c, "cryptostore_gossip_request:info_key", Raw(key_info))}

\* fetched is the row fetch_optional hands back, if any
get_secret_request_by_info(c, d, fetched) ==
    IF ~IsSome(fetched) THEN Ok(NoneV, d)
    ELSE LET dec == DecodeValue(c, Unwrap(fetched).gossip_data)
         IN  IF ~dec.ok THEN Err("Envelope", d) ELSE Ok(dec.val, d)

\* the outcomes of fetch_optional on a set of matching rows: none if there
\* is none, else one of them
FetchOptional(found) == IF found = {} THEN {NoneV} ELSE {Some(r) : r \in found}

GetSecretRequestByInfo(t) ==
    \E q \in GossipInputs :
    \E fetched \in FetchOptional(info_rows(cipher, db, q.info)) :
        Read(t, "get_secret_request_by_info", <<q.info>>,
             get_secret_request_by_info(cipher, data, fetched))

every_gossip_row(rows) == rows.gossip

\* the rows gossip_requests_sent_state_fetch_query matches, bound to false
unsent_rows(rows) == {r \in rows.gossip : r.sent_out = FALSE}

get_unsent_secret_requests(c, d, fetched, failed_at) ==
    LET bad == {i \in DOMAIN fetched :
                   i = failed_at \/ ~DecodeValue(c, fetched[i].gossip_data).ok}
    IN  IF bad = {}
        THEN Ok([i \in DOMAIN fetched |->
                    Unwrap(DecodeValue(c, fetched[i].gossip_data).val)], d)
        ELSE IF (CHOOSE i \in bad : \A j \in bad : i <= j) = failed_at
        THEN Err("Backend", d)
        ELSE Err("Envelope", d)

GetUnsentSecretRequests(t) ==
    /\ IsIdle(t)
    /\ \E fetched \in Orderings(unsent_rows(db)) :
       \E failed_at \in 0..Len(fetched) :
         LET out == IF ~unlocked THEN Err("Locked", data)
                    ELSE get_unsent_secret_requests(cipher, data, fetched, failed_at)
         IN  task' = [task EXCEPT ![t] = Done("get_unsent_secret_requests", <<>>, out)]
    /\ UNCHANGED <<cipher, unlocked, data, db, nwrites, nreopens>>

delete_outgoing_secret_requests(c, d, request_id) ==
    [pre |-> d,
     stmt |-> [table |-> "gossip", kind |-> "delete",
               row |-> [request_id |-> EncodeKey(c, "cryptostore_gossip_request:request_id",
                                                 Raw(request_id))]],
     post |-> d]

\* the delete executes on the pool: it is committed when it returns
DeleteOutgoingSecretRequests(t) ==
    /\ IsIdle(t)
    /\ nwrites < MaxWrites
    /\ nwrites' = nwrites + 1
    /\ \E q \in GossipInputs, ok \in BOOLEAN :
         LET r == delete_outgoing_secret_requests(cipher, data, q.request_id)
             op == "delete_outgoing_secret_requests"
         IN  IF ~unlocked
             THEN /\ task' = [task EXCEPT ![t] =
                                Done(op, <<q.request_id>>, Err("Locked", data))]
                  /\ UNCHANGED db
             ELSE IF ~ok
             THEN /\ task' = [task EXCEPT ![t] =
                                Done(op, <<q.request_id>>, Err("Backend", data))]
                  /\ UNCHANGED db
             ELSE /\ task' = [task EXCEPT ![t] =
                                [Done(op, <<q.request_id>>, Err("", data))
                                    EXCEPT !.status = "Ok"]]
                  /\ db' = Apply(db, r.stmt)
    /\ UNCHANGED <<cipher, unlocked, data, nreopens>>

(***************************************************************************)
(* Replay detection: message hashes of two senders                         *)
(***************************************************************************)
HashInputs == [sender_key : {"k1", "k2"}, hash : {"h1", "h2"}]

HashChanges ==
    {[EmptyChanges EXCEPT !.message_hashes = <<x>>] : x \in HashInputs}
    \cup {[EmptyChanges EXCEPT !.message_hashes = <<x, x>>] : x \in HashInputs}

SaveMessageHashes(t) ==
    \E changes \in HashChanges :
        Begin(t, "save_changes", <<changes>>, save_changes_txn(changes))

IsMessageKnownOf(t) ==
    /\ IsIdle(t)
    /\ \E h \in HashInputs, io_ok \in BOOLEAN :
         LET out == IF ~io_ok THEN Err("Backend", data)
                    ELSE is_message_known(data, db, h)
         IN  task' = [task EXCEPT ![t] = Done("is_message_known", <<h>>, out)]
    /\ UNCHANGED <<cipher, unlocked, data, db, nwrites, nreopens>>

(***************************************************************************)
(* Outbound group sessions of two rooms                                    *)
(***************************************************************************)
OutboundInputs == [room_id : {"!r1", "!r2"}, session_id : {"o1", "o2"}]

OutboundChanges ==
    {[EmptyChanges EXCEPT !.outbound_group_sessions = <<x>>] : x \in OutboundInputs}
    \cup {[EmptyChanges EXCEPT !.account = Some(AccountA),
                               !.outbound_group_sessions = <<x>>] : x \in OutboundInputs}
    \cup {[EmptyChanges EXCEPT !.account = Some(AccountA),
                               !.outbound_group_sessions = <<x, y>>] :
            x \in {z \in OutboundInputs : z.session_id = "o1"},
            y \in {z \in OutboundInputs : z.session_id = "o2"}}

SaveOutboundGroupSessions(t) ==
    \E changes \in OutboundChanges :
        Begin(t, "save_changes", <<changes>>, save_changes_txn(changes))

GetOutboundGroupSessionsOf(t) ==
    /\ IsIdle(t)
    /\ \E o \in OutboundInputs, io_ok \in BOOLEAN :
         LET r == get_outbound_group_sessions(cipher, data, db, o.room_id)
             out == IF ~unlocked THEN Err("Locked", data)
                    ELSE IF ~io_ok /\ IsSome(data.account) THEN Err("Backend", data)
                    ELSE r
         IN  /\ task' = [task EXCEPT ![t] =
                            Done("get_outbound_group_sessions", <<o.room_id>>, out)]
             /\ data' = out.data
    /\ UNCHANGED <<cipher, unlocked, db, nwrites, nreopens>>

(***************************************************************************)
(* Devices of two users, saved, deleted and read back.                     *)
(***************************************************************************)
DeviceInputs ==
    {[user_id |-> "@u1:s", device_id |-> "D1", rev |-> 1],
     [user_id |-> "@u1:s", device_id |-> "D1", rev |-> 2],
     [user_id |-> "@u1:s", device_id |-> "D2", rev |-> 1],
     [user_id |-> "@u2:s", device_id |-> "D1", rev |-> 1]}

DeviceChanges ==
    {[EmptyChanges EXCEPT !.devices.new = <<x>>] : x \in DeviceInputs}
    \cup {[EmptyChanges EXCEPT !.devices.deleted = <<x>>] :
            x \in {z \in DeviceInputs : z.rev = 1}}
    \cup {[EmptyChanges EXCEPT !.devices.new = <<x>>, !.devices.deleted = <<x>>] :
            x \in {z \in DeviceInputs : z.rev = 1 /\ z.device_id = "D1"}}
    \cup {[EmptyChanges EXCEPT !.devices.changed = <<x>>, !.devices.new = <<y>>] :
            x \in {z \in DeviceInputs : z.device_id = "D1" /\ z.rev = 1},
            y \in {z \in DeviceInputs : z.user_id = "@u1:s" /\ z.rev = 2}}
    \cup {[EmptyChanges EXCEPT !.devices.new = <<x, y>>, !.devices.deleted = <<x>>] :
            x \in {z \in DeviceInputs : z.device_id = "D2"},
            y \in {z \in DeviceInputs : z.user_id = "@u2:s"}}

SaveDevices(t) ==
    \E changes \in DeviceChanges :
        Begin(t, "save_changes", <<changes>>, save_changes_txn(changes))

GetDeviceOf(t) ==
    \E x \in DeviceInputs :
        Read(t, "get_device", <<x.user_id, x.device_id>>,
             get_device(cipher, data, db, x.user_id, x.device_id))

GetUserDevices(t) ==
    \E user_id \in Users :
    \E fetched \in Orderings(devices_for_user(cipher, db, user_id)) :
        Read(t, "get_user_devices", <<user_id>>,
             get_user_devices(cipher, data, fetched))

(***************************************************************************)
(* get_sessions row by row, for callers running concurrently with          *)
(* save_session: the cache lookup, the account check and the query are one *)
(* step, every turn of the while loop is one step (try_next, decode,       *)
(* sessions.add), and the final sessions.get is one step.  plan holds the  *)
(* rows the stream has still to yield, txn the rows it has yielded.        *)
(***************************************************************************)
SessionChanges ==
    {[EmptyChanges EXCEPT !.account = Some(AccountA),
                          !.sessions = <<SessionOf("s1"), SessionOf("s2")>>],
     [EmptyChanges EXCEPT !.account = Some(AccountA), !.sessions = <<SessionOf("s1")>>],
     [EmptyChanges EXCEPT !.sessions = <<SessionOf("s2")>>]}

SaveSessions(t) ==
    \E changes \in SessionChanges :
        Begin(t, "save_changes", <<changes>>, save_changes_txn(changes))

GetSessionsFetch(t) ==
    /\ IsIdle(t)
    /\ \E sender_key \in {"k1"} :
       \E fetched \in Orderings(session_rows(cipher, db, sender_key)) :
         task' = [task EXCEPT ![t] =
                    IF ~unlocked
                    THEN Done("get_sessions", <<sender_key>>, Err("Locked", data))
                    ELSE IF IsSome(SessionStore_get(data.sessions, sender_key))
                    THEN Done("get_sessions", <<sender_key>>,
                              Ok(SessionStore_get(data.sessions, sender_key), data))
                    ELSE IF ~IsSome(data.account)
                    THEN Done("get_sessions", <<sender_key>>,
                              Err("MissingAccountInfo", data))
                    ELSE [Running("get_sessions", <<sender_key>>, fetched)
                             EXCEPT !.pc = "rows"]]
    /\ UNCHANGED <<cipher, unlocked, data, db, nwrites, nreopens>>

GetSessionsRow(t) ==
    /\ task[t].pc = "rows"
    /\ task[t].plan # <<>>
    /\ \E ok \in BOOLEAN :
         LET row == Head(task[t].plan)
             dec == DecodeValue(cipher, row.session_data)
         IN  IF ~ok
             THEN /\ task' = [task EXCEPT ![t] = Finished(@, "Err", "Backend")]
                  /\ UNCHANGED data
             ELSE IF ~dec.ok
             THEN /\ task' = [task EXCEPT ![t] = Finished(@, "Err", "Envelope")]
                  /\ UNCHANGED data
             ELSE /\ data' = [data EXCEPT !.sessions =
                                 SessionStore_add(@, FromPickle(Unwrap(dec.val)))]
                  /\ task' = [task EXCEPT ![t].plan = Tail(@),
                                          ![t].txn = Append(@, row)]
    /\ UNCHANGED <<cipher, unlocked, db, nwrites, nreopens>>

GetSessionsReturn(t) ==
    /\ task[t].pc = "rows"
    /\ task[t].plan = <<>>
    /\ \E ok \in BOOLEAN :
         task' = [task EXCEPT ![t] =
                    IF ok
                    THEN Finished([@ EXCEPT !.val =
                                      <<SessionStore_get(data.sessions, task[t].arg[1])>>],
                                  "Ok", "")
                    ELSE Finished(@, "Err", "Backend")]
    /\ UNCHANGED <<cipher, unlocked, data, db, nwrites, nreopens>>

(***************************************************************************)
(* get_inbound_group_session on a cache miss, for callers running          *)
(* concurrently with writers: the cache lookup and the query are one step, *)
(* and what follows the await (decode, from_pickle, group_sessions.add) is *)
(* another.  plan holds the row fetch_optional answered, if any.           *)
(***************************************************************************)
SaveInboundGroupSessions(t) ==
    \E x \in InboundSessions :
        Begin(t, "save_changes", <<[EmptyChanges EXCEPT !.inbound_group_sessions = <<x>>]>>,
              save_changes_txn([EmptyChanges EXCEPT !.inbound_group_sessions = <<x>>]))

GetInboundGroupSessionFetch(t) ==
    /\ IsIdle(t)
    /\ \E g \in InboundSessions, io_ok \in BOOLEAN :
         LET arg == <<g.room_id, g.sender_key, g.session_id>>
             cached == GroupSessionStore_get(data.group_sessions,
                                             g.room_id, g.sender_key, g.session_id)
             found == {r \in db.inbound :
                         SameKey("inbound", r,
                                 save_inbound_group_session(cipher, data, g).stmt.row)}
         IN  task' = [task EXCEPT ![t] =
                        IF ~unlocked
                        THEN Done("get_inbound_group_session", arg, Err("Locked", data))
                        ELSE IF IsSome(cached)
                        THEN Done("get_inbound_group_session", arg, Ok(cached, data))
                        ELSE IF ~io_ok
                        THEN Done("get_inbound_group_session", arg, Err("Backend", data))
                        ELSE [Running("get_inbound_group_session", arg,
                                      CHOOSE fetched \in Orderings(found) : TRUE)
                                 EXCEPT !.pc = "row"]]
    /\ UNCHANGED <<cipher, unlocked, data, db, nwrites, nreopens>>

GetInboundGroupSessionFill(t) ==
    /\ task[t].pc = "row"
    /\ IF task[t].plan = <<>>
       THEN /\ task' = [task EXCEPT ![t] = Finished([@ EXCEPT !.val = <<NoneV>>], "Ok", "")]
            /\ UNCHANGED data
       ELSE LET row == Head(task[t].plan)
                dec == DecodeValue(cipher, row.session_data)
            IN  IF ~dec.ok
                THEN /\ task' = [task EXCEPT ![t] = Finished(@, "Err", "Envelope")]
                     /\ UNCHANGED data
                ELSE IF ~Unwrap(dec.val).intact
                THEN /\ task' = [task EXCEPT ![t] = Finished(@, "Err", "Pickle")]
                     /\ UNCHANGED data
                ELSE LET session == FromPickle(Unwrap(dec.val))
                     IN  /\ data' = [data EXCEPT !.group_sessions =
                                        GroupSessionStore_add(@, session)]
                         /\ task' = [task EXCEPT ![t] =
                                       Finished([@ EXCEPT !.val = <<Some(session)>>,
                                                          !.txn = <<row>>],
                                                "Ok", "")]
    /\ UNCHANGED <<cipher, unlocked, db, nwrites, nreopens>>

(***************************************************************************)
(* load_backup_keys for callers running concurrently with save_changes:    *)
(* its two get_kv calls are two queries on the pool, each its own step.    *)
(* val holds the backup version between the two.  The change-sets write    *)
(* a backup version and its recovery key together.                         *)
(***************************************************************************)
BackupKeyPairs ==
    {[backup_version |-> "v1", recovery_key |-> "rk1"],
     [backup_version |-> "v2", recovery_key |-> "rk2"]}

BackupKeyChanges ==
    {[EmptyChanges EXCEPT !.backup_version = Some(p.backup_version),
                          !.recovery_key = Some(p.recovery_key)] : p \in BackupKeyPairs}

SaveBackupKeys(t) ==
    \E changes \in BackupKeyChanges :
        Begin(t, "save_changes", <<changes>>, save_changes_txn(changes))

LoadBackupVersion(t) ==
    /\ IsIdle(t)
    /\ \E io_ok \in BOOLEAN :
         LET backup_version == load_backup_key(cipher, db, "backup_version")
         IN  task' = [task EXCEPT ![t] =
                        IF ~unlocked THEN Done("load_backup_keys", <<>>, Err("Locked", data))
                        ELSE IF ~io_ok
                        THEN Done("load_backup_keys", <<>>, Err("Backend", data))
                        ELSE IF ~backup_version.ok
                        THEN Done("load_backup_keys", <<>>, Err("Envelope", data))
                        ELSE [Running("load_backup_keys", <<>>, <<>>)
                                 EXCEPT !.pc = "recovery_key",
                                        !.val = <<backup_version.val>>]]
    /\ UNCHANGED <<cipher, unlocked, data, db, nwrites, nreopens>>

LoadRecoveryKey(t) ==
    /\ task[t].pc = "recovery_key"
    /\ \E io_ok \in BOOLEAN :
         LET recovery_key == load_backup_key(cipher, db, "recovery_key")
         IN  task' = [task EXCEPT ![t] =
                        IF ~io_ok THEN Finished([@ EXCEPT !.val = <<>>], "Err", "Backend")
                        ELSE IF ~recovery_key.ok
                        THEN Finished([@ EXCEPT !.val = <<>>], "Err", "Envelope")
                        ELSE Finished([@ EXCEPT !.val =
                                          <<[recovery_key |-> recovery_key.val,
                                             backup_version |-> @[1]]>>],
                                      "Ok", "")]
    /\ UNCHANGED <<cipher, unlocked, data, db, nwrites, nreopens>>

\* try_collect over get_inbound_group_session_stream
get_inbound_group_sessions(c, d, fetched, failed_at) ==
    IF stream_errors(c, fetched, failed_at) # {}
    THEN Err(stream_error(c, fetched, failed_at), d)
    ELSE Ok(stream_sessions(c, fetched, failed_at), d)

GetInboundGroupSessions(t) ==
    /\ IsIdle(t)
    /\ \E fetched \in Orderings(db.inbound) :
       \E failed_at \in 0..Len(fetched) :
         LET out == IF ~unlocked THEN Err("Locked", data)
                    ELSE get_inbound_group_sessions(cipher, data, fetched, failed_at)
         IN  task' = [task EXCEPT ![t] = Done("get_inbound_group_sessions", <<>>, out)]
    /\ UNCHANGED <<cipher, unlocked, data, db, nwrites, nreopens>>

SaveFullChanges(t) ==
    Begin(t, "save_changes", <<FullChanges>>, save_changes_txn(FullChanges))

(***************************************************************************)
(* Rows that no longer decode.  The store finds them when it is opened:    *)
(* the envelope of a row is not one decode_value accepts, or the pickle in *)
(* it is not one from_pickle restores.                                     *)
(***************************************************************************)
MaxCorrupt == 1

EnvelopeTables == {"kv", "session", "inbound", "outbound", "gossip", "identity", "device"}

\* the column of a table that holds the envelope
ValueCol(table) ==
    CASE table = "kv" -> "value"
      [] table \in {"session", "inbound", "outbound"} -> "session_data"
      [] table = "gossip" -> "gossip_data"
      [] table = "identity" -> "identity_data"
      [] table = "device" -> "device_info"

\* the rows whose value the reader hands to a fallible from_pickle
Pickled(table, r) ==
    \/ table \in {"inbound", "outbound"}
    \/ table = "kv" /\ r.key \in {"e2e_account", "private_identity"}

Readable(c, table, r) ==
    LET bytes == r[ValueCol(table)]
    IN  /\ DecodeValue(c, bytes).ok
        /\ Pickled(table, r) => bytes.body.intact

Corrupt(table, r, how) ==
    LET bytes == r[ValueCol(table)]
    IN  [r EXCEPT ![ValueCol(table)] =
            IF how = "envelope" THEN [bytes EXCEPT !.fmt = "garbage"]
            ELSE [bytes EXCEPT !.body = [bytes.body EXCEPT !.intact = FALSE]]]

Unreadable(c, rows) ==
    {<<table, r>> \in UNION {{table} \X rows[table] : table \in EnvelopeTables} :
        ~Readable(c, table, r)}

Tamper ==
    /\ ~unlocked
    /\ AllIdle
    /\ Cardinality(Unreadable(cipher, db)) < MaxCorrupt
    /\ \E table \in EnvelopeTables :
       \E r \in db[table], how \in {"envelope", "pickle"} :
          /\ how = "pickle" => Pickled(table, r)
          /\ Readable(cipher, table, r)
          /\ db' = [db EXCEPT ![table] = (@ \ {r}) \cup {Corrupt(table, r, how)}]
    /\ UNCHANGED <<cipher, unlocked, data, task, nwrites, nreopens>>

DecodeChanges ==
    {FullChanges,
     [EmptyChanges EXCEPT !.account = Some(AccountA),
                          !.sessions = <<SessionOf("s1"), SessionOf("s2")>>]}

SaveDecodeChanges(t) ==
    \E changes \in DecodeChanges :
        Begin(t, "save_changes", <<changes>>, save_changes_txn(changes))

(***************************************************************************)
(* impl CryptoStore: each fallible method awaits the repository call and   *)
(* maps its error.                                                         *)
(***************************************************************************)
\* an error swallowed into the default value
map_err_unwrap_or_default(r) ==
    [status |-> "Ok", err |-> "", val |-> IF r.status = "Ok" THEN r.val ELSE <<NoneV>>]

\* .map_err(|e| CryptoStoreError::Backend(e.into()))
map_err(r) ==
    IF r.status = "Err"
    THEN [status |-> "Err", err |-> "Backend", val |-> <<>>]
    ELSE [status |-> r.status, err |-> r.err, val |-> r.val]

\* what the facade method hands its caller for a finished repository call
CryptoStore(t) ==
    map_err([status |-> task[t].status, err |-> task[t].err, val |-> task[t].val])

(***************************************************************************)
(* The envelope codec called on its own: values and keys of the kinds the  *)
(* store hands it, and bytes written under either codec.                   *)
(***************************************************************************)
CodecValues ==
    {Pickle(a) : a \in Accounts} \cup {Pickle(x) : x \in OlmSessions}
    \cup Devices \cup UserIdentities \cup GossipRequests
    \cup [user_id : Users, dirty : BOOLEAN]

CodecBytes == {EncodeValue(c, value) : c \in {NoneV, Some("c1")}, value \in CodecValues}

CodecTags ==
    {"cryptostore_session:sender_key", "cryptostore_device:user_id",
     "cryptostore_inbound_group_session:room_id"}

CodecKeys == {"k1", "@u1:s", "!r1"}

encode_value(t) ==
    /\ IsIdle(t)
    /\ unlocked
    /\ \E value \in CodecValues :
         task' = [task EXCEPT ![t] =
                    Done("encode_value", <<value>>, Ok(EncodeValue(cipher, value), data))]
    /\ UNCHANGED <<cipher, unlocked, data, db, nwrites, nreopens>>

decode_value(t) ==
    /\ IsIdle(t)
    /\ unlocked
    /\ \E bytes \in CodecBytes :
         LET dec == DecodeValue(cipher, bytes)
         IN  task' = [task EXCEPT ![t] =
                        Done("decode_value", <<bytes>>,
                             IF dec.ok THEN Ok(Unwrap(dec.val), data)
                             ELSE Err("Envelope", data))]
    /\ UNCHANGED <<cipher, unlocked, data, db, nwrites, nreopens>>

encode_key(t) ==
    /\ IsIdle(t)
    /\ unlocked
    /\ \E table_name \in CodecTags, key \in CodecKeys :
         task' = [task EXCEPT ![t] =
                    Done("encode_key", <<table_name, key>>,
                         Ok(EncodeKey(cipher, table_name, Raw(key)), data))]
    /\ UNCHANGED <<cipher, unlocked, data, db, nwrites, nreopens>>

(***************************************************************************)
(* Tracked users.  update_tracked_user changes the two sets with no await  *)
(* in between, but the sets are concurrent sets other threads read, so the *)
(* two updates and the write are three steps.                              *)
(***************************************************************************)
\* DashSet::insert() answers whether the user was newly inserted
wrongly_already_added(d, user) == user \in d.tracked_users
already_added(d, user) == user \notin d.tracked_users

key_query_before_tracked(d, user, dirty) ==
    IF dirty THEN [d EXCEPT !.users_for_key_query = @ \cup {user}]
    ELSE [d EXCEPT !.users_for_key_query = @ \ {user}]
\* line 918
insert_tracked_user(d, user, dirty) ==
    [d EXCEPT !.tracked_users = @ \cup {user}]

\* lines 920-924
update_users_for_key_query(d, user, dirty) ==
    IF dirty THEN [d EXCEPT !.users_for_key_query = @ \cup {user}]
    ELSE [d EXCEPT !.users_for_key_query = @ \ {user}]

UpdateTrackedUser(t) ==
    /\ IsIdle(t)
    /\ nwrites < MaxWrites
    /\ nwrites' = nwrites + 1
    /\ \E user \in Users, dirty \in BOOLEAN :
         IF ~unlocked
         THEN /\ task' = [task EXCEPT ![t] =
                            Done("update_tracked_user", <<user, dirty>>,
                                 Err("Locked", data))]
              /\ UNCHANGED data
         ELSE /\ task' = [task EXCEPT ![t] =
                            [Idle EXCEPT !.op = "update_tracked_user",
                                         !.arg = <<user, dirty>>,
                                         !.pc = "key_query",
                                         !.val = <<already_added(data, user)>>,
                                         !.db0 = <<db>>,
                                         !.data0 = <<data>>]]
              /\ data' = insert_tracked_user(data, user, dirty)
    /\ UNCHANGED <<cipher, unlocked, db, nreopens>>

UpdateKeyQuery(t) ==
    /\ task[t].pc = "key_query"
    /\ data' = update_users_for_key_query(data, task[t].arg[1], task[t].arg[2])
    /\ task' = [task EXCEPT ![t].pc = "save"]
    /\ UNCHANGED <<cipher, unlocked, db, nwrites, nreopens>>

\* save_tracked_user: one upsert on the pool
SaveTrackedUser(t) ==
    /\ task[t].pc = "save"
    /\ LET r == save_tracked_user(cipher, data, task[t].arg[1], task[t].arg[2])
       IN  \E ok \in BOOLEAN :
             IF ok
             THEN /\ db' = Apply(db, r.stmt)
                  /\ task' = [task EXCEPT ![t] = Finished(@, "Ok", "")]
             ELSE /\ UNCHANGED db
                  /\ task' = [task EXCEPT ![t] =
                                Finished([@ EXCEPT !.val = <<>>], "Err", "Backend")]
    /\ UNCHANGED <<cipher, unlocked, data, nwrites, nreopens>>

\* the synchronous accessors of the facade: no error, a default when locked
is_user_tracked(unl, d, user_id) == IF unl THEN user_id \in d.tracked_users ELSE FALSE
has_users_for_key_query(unl, d) == IF unl THEN d.users_for_key_query # {} ELSE FALSE
users_for_key_query(unl, d) == IF unl THEN d.users_for_key_query ELSE {}
tracked_users(unl, d) == IF unl THEN d.tracked_users ELSE {}

(***************************************************************************)
(* The store used by one task at a time                                    *)
(***************************************************************************)
StoreStep(t) ==
    \/ SaveChanges(t)
    \/ SaveAccount(t)
    \/ ResetBackupState(t)
    \/ TxnStep(t)
    \/ TxnCommit(t)
    \/ Drop(t)
    \/ LoadAccount(t)
    \/ LoadIdentity(t)
    \/ LoadBackupKeys(t)
    \/ GetSessions(t)
    \/ GetInboundGroupSession(t)
    \/ GetOutboundGroupSessions(t)
    \/ GetDevice(t)
    \/ GetUserIdentity(t)
    \/ GetOutgoingSecretRequests(t)
    \/ IsMessageKnown(t)
    \/ UpdateTrackedUser(t)
    \/ UpdateKeyQuery(t)
    \/ SaveTrackedUser(t)
    \/ Return(t)

Next == Unlock \/ Reopen \/ StoreStep("t1")

Spec == Init /\ [][Next]_vars

(***************************************************************************)
(* Tasks updating tracked users concurrently                               *)
(***************************************************************************)
TrackedStep(t) ==
    \/ UpdateTrackedUser(t)
    \/ UpdateKeyQuery(t)
    \/ SaveTrackedUser(t)
    \/ Return(t)

NextTracked == Unlock \/ Reopen \/ \E t \in Tasks : TrackedStep(t)

SpecTracked == Init /\ [][NextTracked]_vars

\* the backup accounting of inbound group sessions, one call at a time
BackupStep(t) ==
    \/ SaveGroupSessions(t)
    \/ ResetBackupState(t)
    \/ TxnStep(t)
    \/ TxnCommit(t)
    \/ Drop(t)
    \/ InboundGroupSessionCounts(t)
    \/ InboundGroupSessionsForBackup(t)
    \/ Return(t)

NextBackup == Unlock \/ BackupStep("t1")

SpecBackup == Init /\ [][NextBackup]_vars

\* gossip requests saved, deleted and looked up, one call at a time
GossipStep(t) ==
    \/ SaveGossipRequests(t)
    \/ TxnStep(t)
    \/ TxnCommit(t)
    \/ Drop(t)
    \/ DeleteOutgoingSecretRequests(t)
    \/ GetOutgoingSecretRequests(t)
    \/ GetSecretRequestByInfo(t)
    \/ GetUnsentSecretRequests(t)
    \/ Return(t)

NextGossip == Unlock \/ GossipStep("t1")

SpecGossip == Init /\ [][NextGossip]_vars

\* message hashes saved and looked up, one call at a time
ReplayStep(t) ==
    \/ SaveMessageHashes(t)
    \/ TxnStep(t)
    \/ TxnCommit(t)
    \/ Drop(t)
    \/ IsMessageKnownOf(t)
    \/ Return(t)

NextReplay == Unlock \/ Reopen \/ ReplayStep("t1")

SpecReplay == Init /\ [][NextReplay]_vars

\* outbound group sessions saved and loaded, one call at a time
OutboundStep(t) ==
    \/ SaveOutboundGroupSessions(t)
    \/ TxnStep(t)
    \/ TxnCommit(t)
    \/ Drop(t)
    \/ LoadAccount(t)
    \/ GetOutboundGroupSessionsOf(t)
    \/ Return(t)

NextOutbound == Unlock \/ Reopen \/ OutboundStep("t1")

SpecOutbound == Init /\ [][NextOutbound]_vars

\* devices saved, deleted and read back, one call at a time
DeviceStep(t) ==
    \/ SaveDevices(t)
    \/ TxnStep(t)
    \/ TxnCommit(t)
    \/ Drop(t)
    \/ GetDeviceOf(t)
    \/ GetUserDevices(t)
    \/ Return(t)

NextDevices == Unlock \/ Reopen \/ DeviceStep("t1")

SpecDevices == Init /\ [][NextDevices]_vars

\* tasks saving sessions and reading them concurrently
SessionsStep(t) ==
    \/ SaveSessions(t)
    \/ TxnStep(t)
    \/ TxnCommit(t)
    \/ Drop(t)
    \/ GetSessionsFetch(t)
    \/ GetSessionsRow(t)
    \/ GetSessionsReturn(t)
    \/ Return(t)

NextSessions == Unlock \/ Reopen \/ \E t \in Tasks : SessionsStep(t)

SpecSessions == Init /\ [][NextSessions]_vars

\* tasks saving, resetting and reading inbound group sessions concurrently
InboundStep(t) ==
    \/ SaveInboundGroupSessions(t)
    \/ ResetBackupState(t)
    \/ TxnStep(t)
    \/ TxnCommit(t)
    \/ Drop(t)
    \/ GetInboundGroupSessionFetch(t)
    \/ GetInboundGroupSessionFill(t)
    \/ Return(t)

NextInbound == Unlock \/ Reopen \/ \E t \in Tasks : InboundStep(t)

SpecInbound == Init /\ [][NextInbound]_vars

\* tasks saving and loading the backup keys concurrently
BackupKeysStep(t) ==
    \/ SaveBackupKeys(t)
    \/ TxnStep(t)
    \/ TxnCommit(t)
    \/ Drop(t)
    \/ LoadBackupVersion(t)
    \/ LoadRecoveryKey(t)
    \/ Return(t)

NextBackupKeys == Unlock \/ Reopen \/ \E t \in Tasks : BackupKeysStep(t)

SpecBackupKeys == Init /\ [][NextBackupKeys]_vars

\* every read of the store, over rows of every table, one call at a time
ReadsStep(t) ==
    \/ SaveFullChanges(t)
    \/ TxnStep(t)
    \/ TxnCommit(t)
    \/ Drop(t)
    \/ LoadAccount(t)
    \/ LoadIdentity(t)
    \/ LoadBackupKeys(t)
    \/ GetSessions(t)
    \/ GetInboundGroupSession(t)
    \/ GetInboundGroupSessions(t)
    \/ InboundGroupSessionCounts(t)
    \/ InboundGroupSessionsForBackup(t)
    \/ GetOutboundGroupSessions(t)
    \/ GetDevice(t)
    \/ GetUserDevices(t)
    \/ GetUserIdentity(t)
    \/ IsMessageKnown(t)
    \/ GetOutgoingSecretRequests(t)
    \/ GetSecretRequestByInfo(t)
    \/ GetUnsentSecretRequests(t)
    \/ Return(t)

NextReads == Unlock \/ Reopen \/ ReadsStep("t1")

SpecReads == Init /\ [][NextReads]_vars

\* a store opened on rows that no longer decode, one call at a time
DecodeStep(t) ==
    \/ SaveDecodeChanges(t)
    \/ TxnStep(t)
    \/ TxnCommit(t)
    \/ Drop(t)
    \/ LoadAccount(t)
    \/ LoadIdentity(t)
    \/ LoadBackupKeys(t)
    \/ GetSessions(t)
    \/ GetInboundGroupSession(t)
    \/ GetOutboundGroupSessions(t)
    \/ GetDevice(t)
    \/ GetUserIdentity(t)
    \/ GetOutgoingSecretRequests(t)
    \/ GetSecretRequestByInfo(t)
    \/ Return(t)

NextDecode == Unlock \/ Reopen \/ Tamper \/ DecodeStep("t1")

SpecDecode == Init /\ [][NextDecode]_vars

\* the codec of an unlocked store, called on its own
CodecStep(t) ==
    \/ encode_value(t)
    \/ decode_value(t)
    \/ encode_key(t)
    \/ Return(t)

NextCodec == Unlock \/ \E t \in Tasks : CodecStep(t)

SpecCodec == Init /\ [][NextCodec]_vars


(***************************************************************************)
(* Properties                                                              *)
(***************************************************************************)
\* the statements a list of calls binds
StatementsOf(calls) == [i \in DOMAIN calls |-> Invoke(cipher, NewData, calls[i]).stmt]

\* statement w is in effect in rows: its row is there, or its key is gone
InEffect(w, rows) ==
    IF w.kind = "upsert" THEN w.row \in rows[w.table]
    ELSE \A r \in rows[w.table] : ~SameKey(w.table, r, w.row)

\* every statement of log that no later one of log overrides is in effect
AllInEffect(log, rows) ==
    \A i \in DOMAIN log :
        (\A j \in DOMAIN log :
            j > i => ~(log[j].table = log[i].table
                       /\ SameKey(log[i].table, log[j].row, log[i].row)))
        => InEffect(log[i], rows)

\* C1: save_changes is all or nothing on the committed rows. While a call is
\* in flight, and after it failed at a step, failed at commit or was dropped,
\* the database holds what it held when the call began; after Ok it holds
\* that with every entity of the batch applied.
C1_SaveChangesAtomic ==
    \A t \in Tasks :
        task[t].op = "save_changes" =>
            LET before == Unwrap(task[t].db0)
                batch == StatementsOf(save_changes_txn(task[t].arg[1]))
            IN  IF IsDone(t) /\ task[t].status = "Ok"
                THEN db = ApplyAll(before, batch) /\ AllInEffect(batch, db)
                ELSE db = before

\* a multi-entity batch whose commit failed, the rows as they were
C1_FaultBeforeCommit ==
    \E t \in Tasks :
        /\ task[t].op = "save_changes"
        /\ IsDone(t)
        /\ task[t].status = "Err"
        /\ task[t].plan = <<>>
        /\ Len(task[t].txn) >= 2
        /\ db = Unwrap(task[t].db0)

\* the rows a cached session, group session or device would have
SessionRow(session) == save_session(cipher, NewData, session).stmt.row
GroupSessionRow(session) == save_inbound_group_session(cipher, NewData, session).stmt.row
DeviceRow(device) == save_device(cipher, NewData, device).stmt.row

\* C2: every entry of the session cache, the group-session cache and the
\* device cache is a committed row of the database (stated here for the
\* states in which no transaction is open, where "not yet committed" is
\* "never committed").
C2_CachesNeverLead ==
    (\A t \in Tasks : ~InFlight(t)) =>
    /\ \A k \in SenderKeys : \A i \in DOMAIN data.sessions[k] :
           SessionRow(data.sessions[k][i]) \in db.session
    /\ \A g \in data.group_sessions : GroupSessionRow(g) \in db.inbound
    /\ \A x \in data.devices : DeviceRow(x) \in db.device

\* the caches and the AccountInfo slot of a CryptostoreData
CachesOf(d) ==
    [account |-> d.account, sessions |-> d.sessions,
     group_sessions |-> d.group_sessions, devices |-> d.devices]

\* C3: save_changes, save_account and reset_backup_state that fail or are
\* dropped before commit leave the caches and the AccountInfo slot as the
\* call found them.
C3_FailedCallKeepsCaches ==
    \A t \in Tasks :
        /\ task[t].op \in {"save_changes", "save_account", "reset_backup_state"}
        /\ IsDone(t)
        /\ task[t].status # "Ok"
        => CachesOf(data) = CachesOf(Unwrap(task[t].data0))

\* the place of each field of Changes in the order of the change-set executor
FieldRank(field) ==
    CASE field = "account" -> 1
      [] field = "private_identity" -> 2
      [] field = "backup_version" -> 3
      [] field = "recovery_key" -> 4
      [] field = "sessions" -> 5
      [] field = "message_hashes" -> 6
      [] field = "inbound_group_sessions" -> 7
      [] field = "outbound_group_sessions" -> 8
      [] field = "key_requests" -> 9
      [] field = "identities.changed" -> 10
      [] field = "identities.new" -> 11
      [] field = "devices.changed" -> 12
      [] field = "devices.new" -> 13
      [] field = "devices.deleted" -> 14

EntityCount(changes) ==
    Len(changes.account) + Len(changes.private_identity)
    + Len(changes.backup_version) + Len(changes.recovery_key)
    + Len(changes.sessions) + Len(changes.message_hashes)
    + Len(changes.inbound_group_sessions) + Len(changes.outbound_group_sessions)
    + Len(changes.key_requests)
    + Len(changes.identities.changed) + Len(changes.identities.new)
    + Len(changes.devices.changed) + Len(changes.devices.new)
    + Len(changes.devices.deleted)

\* C4: the statements of one save_changes run on its transaction in the
\* order account, private_identity, backup_version, recovery_key, sessions,
\* message_hashes, inbound_group_sessions, outbound_group_sessions,
\* key_requests, identities (changed, new), devices (changed, new),
\* device deletions: what ran comes before what is still to run, a call that
\* returned Ok ran all of them, and a failed call ran none after the failure.
C4_FixedOrder ==
    \A t \in Tasks :
        task[t].op = "save_changes" =>
            LET ran == task[t].txn
                left == task[t].plan
            IN  /\ \A i, j \in DOMAIN ran :
                      i < j => FieldRank(ran[i].field) <= FieldRank(ran[j].field)
                /\ \A i \in DOMAIN ran : \A j \in DOMAIN left :
                      FieldRank(ran[i].field) <= FieldRank(left[j].field)
                /\ \A i, j \in DOMAIN left :
                      i < j => FieldRank(left[i].field) <= FieldRank(left[j].field)
                /\ Len(ran) + Len(left) <= EntityCount(task[t].arg[1])
                /\ IsDone(t) /\ task[t].status = "Ok"
                      => left = <<>> /\ Len(ran) = EntityCount(task[t].arg[1])
                /\ InFlight(t) => Len(ran) + Len(left) = EntityCount(task[t].arg[1])

\* a batch with all twelve steps ran to its commit
C4_FullBatchRan ==
    \E t \in Tasks :
        /\ task[t].op = "save_changes"
        /\ IsDone(t)
        /\ task[t].status = "Ok"
        /\ task[t].arg[1] = FullChanges
        /\ Len(task[t].txn) = 14

\* C5: whenever the AccountInfo slot is set, an Account is persisted and
\* the slot holds its user id, device id and identity keys (stated here for
\* the states in which no transaction is open).
C5_AccountInfoMatchesPersisted ==
    (\A t \in Tasks : ~InFlight(t)) /\ IsSome(data.account) =>
        LET loaded == load_account(cipher, NewData, db)
        IN  /\ loaded.status = "Ok"
            /\ IsSome(loaded.val[1])
            /\ Unwrap(data.account) = AccountInfoOf(Unwrap(loaded.val[1]))


\* C6: users_for_key_query is a subset of tracked_users in every state,
\* between the steps of concurrent update_tracked_user calls included.
C6_KeyQuerySubsetOfTracked ==
    data.users_for_key_query \subseteq data.tracked_users

\* two calls in flight at once and a user marked for a key query
C6_ConcurrentUpdates ==
    \E t, u \in Tasks :
        /\ t # u
        /\ task[t].pc = "key_query"
        /\ task[u].pc = "save"
        /\ data.users_for_key_query # {}

\* C7: update_tracked_user(u, dirty) answers true exactly when u was not
\* tracked before the call; when it has returned Ok, u is tracked and is in
\* users_for_key_query iff dirty; no call takes a user out of tracked_users.
C7_UpdateTrackedUser ==
    /\ [][\A t \in Tasks :
            IsIdle(t) /\ task'[t].op = "update_tracked_user" /\ ~task'[t].locked
            => task'[t].val = <<task'[t].arg[1] \notin data.tracked_users>>]_vars
    /\ [](\A t \in Tasks :
            task[t].op = "update_tracked_user" /\ IsDone(t) /\ task[t].status = "Ok"
            => /\ Len(task[t].val) = 1
               /\ task[t].arg[1] \in data.tracked_users
               /\ task[t].arg[1] \in data.users_for_key_query <=> task[t].arg[2])
    /\ [][unlocked /\ unlocked' => data.tracked_users \subseteq data'.tracked_users]_vars

\* a second call, with dirty = false: false is answered, the user leaves
\* users_for_key_query and stays tracked
C7_SecondCallClean ==
    \E t \in Tasks :
        /\ task[t].op = "update_tracked_user"
        /\ IsDone(t)
        /\ task[t].status = "Ok"
        /\ task[t].val = <<FALSE>>
        /\ task[t].arg[2] = FALSE
        /\ task[t].arg[1] \in data.tracked_users
        /\ task[t].arg[1] \notin data.users_for_key_query

OnlyMessageHashes(changes) == [changes EXCEPT !.message_hashes = <<>>] = EmptyChanges

PersistedSessions(sender_key) ==
    {FromPickle(Unwrap(DecodeValue(cipher, r.session_data).val)) :
        r \in session_rows(cipher, db, sender_key)}

\* DeviceStore::get
DeviceStore_get(devices, user_id, device_id) ==
    LET hit == {x \in devices : x.user_id = user_id /\ x.device_id = device_id}
    IN  IF hit = {} THEN NoneV ELSE Some(CHOOSE x \in hit : TRUE)

\* C9: when a save has returned Ok, for every key it wrote the cache agrees
\* with the database: the cached list of a sender key holds every session
\* persisted under that key, the cached group session and the cached device
\* are the persisted ones.
C9_CacheAgreesAfterSave ==
    \A t \in Tasks :
        task[t].op = "save_changes" /\ IsDone(t) /\ task[t].status = "Ok" /\ ~task[t].locked
        => LET changes == task[t].arg[1]
               devs == changes.devices.changed \o changes.devices.new
                       \o changes.devices.deleted
           IN  /\ \A i \in DOMAIN changes.sessions :
                     \A s \in PersistedSessions(changes.sessions[i].sender_key) :
                         InSeq(s, data.sessions[changes.sessions[i].sender_key])
               /\ \A i \in DOMAIN changes.inbound_group_sessions :
                     LET g == changes.inbound_group_sessions[i]
                     IN  Some(GroupSessionStore_get(data.group_sessions, g.room_id,
                                                    g.sender_key, g.session_id))
                         = get_inbound_group_session(cipher, NewData, db, g.room_id,
                                                     g.sender_key, g.session_id).val
               /\ \A i \in DOMAIN devs :
                     Some(DeviceStore_get(data.devices, devs[i].user_id, devs[i].device_id))
                     = get_device(cipher, data, db, devs[i].user_id, devs[i].device_id).val


\* the statement each writer issues for each value under each codec, and
\* whether its row is committed
RowOf ==
    [c \in {NoneV, Some("c1")} |->
        [save_account_txn |-> [v \in Accounts |-> save_account_txn(c, NewData, v).stmt],
         store_identity |-> [v \in PrivateIdentities |-> store_identity(c, NewData, v).stmt],
         store_backup_version |->
             [v \in BackupVersions |-> store_backup_version(c, NewData, v).stmt],
         store_recovery_key |->
             [v \in RecoveryKeys |-> store_recovery_key(c, NewData, v).stmt],
         save_session |-> [v \in OlmSessions |-> save_session(c, NewData, v).stmt],
         save_inbound_group_session |->
             [v \in InboundSessions |-> save_inbound_group_session(c, NewData, v).stmt],
         save_outbound_group_session |->
             [v \in OutboundSessions |-> save_outbound_group_session(c, NewData, v).stmt],
         save_gossip_request |->
             [v \in GossipRequests |-> save_gossip_request(c, NewData, v).stmt],
         save_crypto_identity |->
             [v \in UserIdentities |-> save_crypto_identity(c, NewData, v).stmt],
         save_device |-> [v \in Devices |-> save_device(c, NewData, v).stmt]]]
Committed(fn, value) == LET w == RowOf[cipher][fn][value] IN w.row \in db[w.table]

\* get_sessions answers with a list that holds the session, in whatever
\* order the rows of the sender key come back
LoadsSession(session) ==
    \A fetched \in Orderings(session_rows(cipher, db, session.sender_key)) :
        LET r == get_sessions(cipher, data, session.sender_key, fetched,
                              Len(fetched), FALSE)
        IN  /\ r.status = "Ok"
            /\ IsSome(r.val[1])
            /\ InSeq(session, Unwrap(r.val[1]))

LoadsGroupSession(session) ==
    get_inbound_group_session(cipher, data, db, session.room_id, session.sender_key,
                              session.session_id).val = <<Some(session)>>

\* C10: in an unlocked store a committed value loads back by its key as
\* Some(V).  The kinds that are read from the database alone (account,
\* cross-signing identity, backup version, recovery key, outbound group
\* session once AccountInfo is set, gossip request, user identity, device)
\* load back in every state; an Olm session and an inbound group session
\* load back when the save that committed them has just returned, and, from
\* the database, when the cache has no entry for their key, as after a
\* reopen, unlock and load_account.
C10_RoundTrip ==
    unlocked =>
        /\ \A account \in Accounts :
              Committed("save_account_txn", account)
              => load_account(cipher, data, db).val = <<Some(account)>>
        /\ \A identity \in PrivateIdentities :
              Committed("store_identity", identity)
              => load_identity(cipher, data, db).val = <<Some(identity)>>
        /\ \A version \in BackupVersions :
              Committed("store_backup_version", version)
              => LET r == load_backup_keys(cipher, data, db)
                 IN  r.status = "Ok" /\ r.val[1].backup_version = Some(version)
        /\ \A key \in RecoveryKeys :
              Committed("store_recovery_key", key)
              => LET r == load_backup_keys(cipher, data, db)
                 IN  r.status = "Ok" /\ r.val[1].recovery_key = Some(key)
        /\ \A session \in OutboundSessions :
              Committed("save_outbound_group_session", session) /\ IsSome(data.account)
              => get_outbound_group_sessions(cipher, data, db, session.room_id).val
                 = <<Some(session)>>
        /\ \A request \in GossipRequests :
              Committed("save_gossip_request", request)
              => get_outgoing_key_request(cipher, data, db, request.request_id).val
                 = <<Some(request)>>
        /\ \A identity \in UserIdentities :
              Committed("save_crypto_identity", identity)
              => get_user_identity(cipher, data, db, identity.user_id).val
                 = <<Some(identity)>>
        /\ \A device \in Devices :
              Committed("save_device", device)
              => get_device(cipher, data, db, device.user_id, device.device_id).val
                 = <<Some(device)>>
        /\ \A session \in OlmSessions :
              /\ Committed("save_session", session)
              /\ \/ SessionStore_get(data.sessions, session.sender_key) = NoneV
                       /\ IsSome(data.account)
                 \/ \E t \in Tasks :
                       /\ task[t].op = "save_changes" /\ IsDone(t) /\ task[t].status = "Ok"
                       /\ InSeq(session, task[t].arg[1].sessions)
              => LoadsSession(session)
        /\ \A session \in InboundSessions :
              /\ Committed("save_inbound_group_session", session)
              /\ \/ GroupSessionStore_get(data.group_sessions, session.room_id,
                                          session.sender_key, session.session_id) = NoneV
                 \/ \E t \in Tasks :
                       /\ task[t].op = "save_changes" /\ IsDone(t) /\ task[t].status = "Ok"
                       /\ InSeq(session, task[t].arg[1].inbound_group_sessions)
              => LoadsGroupSession(session)

\* a reopened and unlocked store with AccountInfo loaded, empty caches and
\* committed rows of the cached and of the uncached kinds
C10_ReopenedWithRows ==
    /\ nreopens = 1
    /\ unlocked
    /\ IsSome(cipher)
    /\ IsSome(data.account)
    /\ \E session \in OlmSessions :
          /\ Committed("save_session", session)
          /\ SessionStore_get(data.sessions, session.sender_key) = NoneV
    /\ \E session \in InboundSessions :
          /\ Committed("save_inbound_group_session", session)
          /\ data.group_sessions = {}
    /\ \E session \in OutboundSessions : Committed("save_outbound_group_session", session)
    /\ \E device \in Devices : Committed("save_device", device)
    /\ \E request \in GossipRequests : Committed("save_gossip_request", request)


\* C11: get_sessions(sender_key) on an unlocked store answers absent, and no
\* error, when neither the cache nor the database holds a session of the
\* sender key (a call whose query fails is left aside).
C11_NoSessionIsAbsent ==
    \A t \in Tasks :
        /\ task[t].op = "get_sessions"
        /\ IsDone(t)
        /\ ~task[t].locked
        /\ task[t].err # "Backend"
        /\ session_rows(cipher, Unwrap(task[t].db0), task[t].arg[1]) = {}
        /\ SessionStore_get(Unwrap(task[t].data0).sessions, task[t].arg[1]) = NoneV
        => task[t].status = "Ok" /\ task[t].val = <<NoneV>>


\* the inbound group sessions persisted in a database, and their keys
PersistedGroupSessions(rows) ==
    {FromPickle(Unwrap(DecodeValue(cipher, r.session_data).val)) : r \in rows.inbound}

GroupSessionKey(session) == <<session.room_id, session.sender_key, session.session_id>>

GroupSessionKeys(rows) == {GroupSessionKey(s) : s \in PersistedGroupSessions(rows)}

\* C12: whatever inbound group sessions have been saved and saved again,
\* one row is persisted per (room, sender key, session id), a session of a
\* returned save is persisted as saved, and inbound_group_session_counts()
\* answers total = the number of persisted sessions and backed_up = the
\* number of them persisted with the backed-up flag set.
C12_CountsMatchPersisted ==
    /\ Cardinality(db.inbound) = Cardinality(GroupSessionKeys(db))
    /\ \A t \in Tasks :
          task[t].op = "save_changes" /\ IsDone(t) /\ task[t].status = "Ok"
          => LET saved == task[t].arg[1].inbound_group_sessions
             IN  \A i \in DOMAIN saved :
                    (\A j \in DOMAIN saved :
                        j > i => GroupSessionKey(saved[j]) # GroupSessionKey(saved[i]))
                    => saved[i] \in PersistedGroupSessions(db)
    /\ unlocked =>
          \A fetched \in Orderings(db.inbound) :
              inbound_group_session_counts(cipher, data, fetched, 0).val
              = <<[total |-> Cardinality(GroupSessionKeys(db)),
                   backed_up |-> Cardinality({s \in PersistedGroupSessions(db) :
                                                 s.backed_up})]>>
    /\ \A t \in Tasks :
          /\ task[t].op = "inbound_group_session_counts"
          /\ IsDone(t)
          /\ task[t].status = "Ok"
          => /\ task[t].val[1].total = Cardinality(GroupSessionKeys(db))
             /\ task[t].val[1].backed_up
                = Cardinality({s \in PersistedGroupSessions(db) : s.backed_up})

\* two sessions persisted, one of them backed up, and counted
C12_CountedTwoOneBackedUp ==
    \E t \in Tasks :
        /\ task[t].op = "inbound_group_session_counts"
        /\ IsDone(t)
        /\ task[t].val = <<[total |-> 2, backed_up |-> 1]>>

\* what inbound_group_sessions_for_backup(limit) is to return
IsBackupSelection(list, limit) ==
    LET pending == {s \in PersistedGroupSessions(db) : ~s.backed_up}
    IN  /\ Len(list) = IF limit < Cardinality(pending) THEN limit
                       ELSE Cardinality(pending)
        /\ \A i, j \in DOMAIN list : list[i] = list[j] => i = j
        /\ \A i \in DOMAIN list : list[i] \in pending

\* C13: inbound_group_sessions_for_backup(n) returns min(n, number of
\* persisted sessions not backed up) sessions, no two the same, each
\* persisted and not backed up, for every n from 0 on and in whatever order
\* the rows come.
C13_ForBackupSelection ==
    /\ unlocked =>
          \A limit \in 0..MaxLimit :
          \A fetched \in Orderings(db.inbound) :
              LET r == inbound_group_sessions_for_backup(cipher, data, fetched, limit, 0)
              IN  r.status = "Ok" /\ IsBackupSelection(r.val[1], limit)
    /\ \A t \in Tasks :
          /\ task[t].op = "inbound_group_sessions_for_backup"
          /\ IsDone(t)
          /\ task[t].status = "Ok"
          => IsBackupSelection(task[t].val[1], task[t].arg[1])

\* a backed-up and a pending session persisted, and the pending one selected
C13_SelectedThePendingOne ==
    \E t \in Tasks :
        /\ task[t].op = "inbound_group_sessions_for_backup"
        /\ IsDone(t)
        /\ task[t].status = "Ok"
        /\ task[t].arg = <<1>>
        /\ Len(task[t].val[1]) = 1
        /\ \E s \in PersistedGroupSessions(db) : s.backed_up

\* C14: when reset_backup_state() has returned Ok, every persisted inbound
\* group session has its backed-up flag clear and the persisted sessions are
\* those persisted before, by key; while it runs, and when it failed or was
\* dropped before commit, the database is as it was.
C14_ResetBackupState ==
    \A t \in Tasks :
        task[t].op = "reset_backup_state" /\ ~IsIdle(t)
        => IF IsDone(t) /\ task[t].status = "Ok"
           THEN /\ \A s \in PersistedGroupSessions(db) : ~s.backed_up
                /\ GroupSessionKeys(db) = GroupSessionKeys(Unwrap(task[t].db0))
                /\ Cardinality(db.inbound) = Cardinality(Unwrap(task[t].db0).inbound)
           ELSE db = Unwrap(task[t].db0)

\* a reset that cleared the flag of a backed-up session
C14_ResetClearedAFlag ==
    \E t \in Tasks :
        /\ task[t].op = "reset_backup_state"
        /\ IsDone(t)
        /\ task[t].status = "Ok"
        /\ Cardinality(db.inbound) = 2
        /\ \E s \in PersistedGroupSessions(Unwrap(task[t].db0)) : s.backed_up


\* the gossip requests persisted in the database
PersistedRequests == {Unwrap(DecodeValue(cipher, r.gossip_data).val) : r \in db.gossip}

\* the last request of a list that has the info key, if any has
LatestUnderInfo(requests, info) ==
    LET at == {i \in DOMAIN requests : requests[i].info = info}
    IN  IF at = {} THEN NoneV
        ELSE Some(requests[CHOOSE i \in at : \A j \in at : j <= i])

\* C15: get_secret_request_by_info(info) answers the request most recently
\* saved under the info key, unless it has been deleted: when a save of
\* requests has returned, the lookup of each info key of the batch answers
\* the last request of the batch under it, and when a delete has returned
\* no lookup answers a request of the deleted id.
C15_ByInfoIsLatestSaved ==
    unlocked =>
        \A t \in Tasks :
            /\ /\ task[t].op = "save_changes"
               /\ IsDone(t)
               /\ task[t].status = "Ok"
               => \A q \in GossipInputs :
                      LET latest == LatestUnderInfo(task[t].arg[1].key_requests, q.info)
                      IN  IsSome(latest)
                          => \A fetched \in FetchOptional(info_rows(cipher, db, q.info)) :
                                get_secret_request_by_info(cipher, data, fetched).val
                                = <<latest>>
            /\ /\ task[t].op = "delete_outgoing_secret_requests"
               /\ IsDone(t)
               /\ task[t].status = "Ok"
               => \A q \in GossipInputs :
                  \A fetched \in FetchOptional(info_rows(cipher, db, q.info)) :
                      LET r == get_secret_request_by_info(cipher, data, fetched)
                      IN  r.val # <<NoneV>>
                          => Unwrap(r.val[1]).request_id # task[t].arg[1]

\* C16: get_unsent_secret_requests() returns exactly the persisted requests
\* whose sent-out flag is clear, each once.  One request is persisted per
\* request id, the one last saved, so saving an id again with sent_out set
\* takes it out of the result; after delete_outgoing_secret_requests(id) no
\* request of the id is persisted and get_outgoing_secret_requests(id)
\* answers absent.
C16_UnsentRequests ==
    /\ Cardinality(db.gossip) = Cardinality({q.request_id : q \in PersistedRequests})
    /\ unlocked =>
          \A fetched \in Orderings(unsent_rows(db)) :
              LET r == get_unsent_secret_requests(cipher, data, fetched, 0)
              IN  /\ r.status = "Ok"
                  /\ {r.val[1][i] : i \in DOMAIN r.val[1]}
                     = {q \in PersistedRequests : ~q.sent_out}
                  /\ Len(r.val[1]) = Cardinality({q \in PersistedRequests : ~q.sent_out})
    /\ \A t \in Tasks :
          /\ /\ task[t].op = "save_changes"
             /\ IsDone(t)
             /\ task[t].status = "Ok"
             /\ ~task[t].locked
             => \A q \in GossipInputs :
                    LatestUnderInfo(task[t].arg[1].key_requests, q.info) = Some(q)
                    => /\ q \in PersistedRequests
                       /\ \A p \in PersistedRequests : p.request_id = q.request_id => p = q
          /\ /\ task[t].op = "delete_outgoing_secret_requests"
             /\ IsDone(t)
             /\ task[t].status = "Ok"
             => /\ \A p \in PersistedRequests : p.request_id # task[t].arg[1]
                /\ get_outgoing_key_request(cipher, data, db, task[t].arg[1]).val
                   = <<NoneV>>

\* two requests persisted, one of them sent out, and the unsent one returned
C16_ResavedSentOut ==
    \E t \in Tasks :
        /\ task[t].op = "get_unsent_secret_requests"
        /\ IsDone(t)
        /\ task[t].status = "Ok"
        /\ Len(task[t].val[1]) = 1
        /\ Cardinality(db.gossip) = 2


\* the row save_message_hash writes for a message hash
HashRow(message_hash) == save_message_hash(cipher, NewData, message_hash).stmt.row

HashRows(hashes) == {HashRow(hashes[i]) : i \in DOMAIN hashes}

\* C17: is_message_known(h) is true exactly when the row of (sender key,
\* hash) is committed; a row of the message-hash table appears only at the
\* commit of a save_changes that returns Ok, which adds the rows of its
\* hashes and no other; and a save of hashes that are all known returns Ok
\* with the database as it was.
C17_ReplayDetection ==
    /\ [](\A h \in HashInputs :
            is_message_known(data, db, h).val = <<HashRow(h) \in db.hash>>)
    /\ [](\A t \in Tasks :
            /\ task[t].op = "is_message_known"
            /\ IsDone(t)
            /\ task[t].status = "Ok"
            => task[t].val = <<HashRow(task[t].arg[1]) \in db.hash>>)
    /\ [][db'.hash # db.hash
          => \E t \in Tasks :
                /\ task[t].op = "save_changes"
                /\ InFlight(t)
                /\ IsDone(t)'
                /\ task'[t].status = "Ok"
                /\ db'.hash = db.hash \cup HashRows(task[t].arg[1].message_hashes)]_vars
    /\ [](\A t \in Tasks :
            /\ task[t].op = "save_changes"
            /\ IsDone(t)
            /\ task[t].status = "Ok"
            => /\ HashRows(task[t].arg[1].message_hashes) \subseteq db.hash
               /\ HashRows(task[t].arg[1].message_hashes) \subseteq Unwrap(task[t].db0).hash
                  => db = Unwrap(task[t].db0))

\* a hash that was known is saved again, and the save has returned Ok
C17_SavedAgain ==
    \E t \in Tasks :
        /\ task[t].op = "save_changes"
        /\ IsDone(t)
        /\ task[t].status = "Ok"
        /\ task[t].arg[1].message_hashes # <<>>
        /\ HashRows(task[t].arg[1].message_hashes) \subseteq Unwrap(task[t].db0).hash


\* the outbound group sessions persisted in a database
PersistedOutbound(rows) ==
    {FromPickle(Unwrap(DecodeValue(cipher, r.session_data).val)) : r \in rows.outbound}

\* the last session of a list that is of the room, if any is
LatestOfRoom(sessions, room_id) ==
    LET at == {i \in DOMAIN sessions : sessions[i].room_id = room_id}
    IN  IF at = {} THEN NoneV
        ELSE Some(sessions[CHOOSE i \in at : \A j \in at : j <= i])

\* C20: at most one outbound group session is persisted per room; when a
\* save has returned Ok, whether the room had a session or not, the session
\* persisted for each room of the batch is the last one the batch has for
\* it, and get_outbound_group_sessions(room) answers that session once
\* AccountInfo is set.
C20_OneOutboundPerRoom ==
    /\ \A a, b \in PersistedOutbound(db) : a.room_id = b.room_id => a = b
    /\ Cardinality(db.outbound) = Cardinality(PersistedOutbound(db))
    /\ \A t \in Tasks :
          /\ task[t].op = "save_changes"
          /\ IsDone(t)
          /\ task[t].status = "Ok"
          => \A o \in OutboundInputs :
                LET latest == LatestOfRoom(task[t].arg[1].outbound_group_sessions,
                                           o.room_id)
                IN  IsSome(latest)
                    => /\ Unwrap(latest) \in PersistedOutbound(db)
                       /\ IsSome(data.account)
                          => get_outbound_group_sessions(cipher, data, db, o.room_id).val
                             = <<latest>>
    /\ \A t \in Tasks :
          /\ task[t].op = "get_outbound_group_sessions"
          /\ IsDone(t)
          /\ task[t].status = "Ok"
          /\ task[t].val # <<NoneV>>
          => /\ Unwrap(task[t].val[1]) \in PersistedOutbound(db)
             /\ Unwrap(task[t].val[1]).room_id = task[t].arg[1]

\* a save that replaced the session of a room
C20_ReplacedSession ==
    \E t \in Tasks :
        /\ task[t].op = "save_changes"
        /\ IsDone(t)
        /\ task[t].status = "Ok"
        /\ IsSome(data.account)
        /\ \E old \in PersistedOutbound(Unwrap(task[t].db0)) :
           \E new \in PersistedOutbound(db) :
              old.room_id = new.room_id /\ old # new


LoadOps ==
    {"load_account", "load_identity", "get_sessions", "get_inbound_group_session",
     "get_outbound_group_sessions", "get_device", "get_user_identity",
     "get_outgoing_secret_requests", "get_secret_request_by_info", "load_backup_keys"}

\* the rows, each with its table, that hold the value a load or get call is
\* asked for
RowsOfKey(op, arg, rows) ==
    CASE op = "load_account" ->
            {"kv"} \X {r \in rows.kv : r.key = "e2e_account"}
      [] op = "load_identity" ->
            {"kv"} \X {r \in rows.kv : r.key = "private_identity"}
      [] op = "load_backup_keys" ->
            {"kv"} \X {r \in rows.kv : r.key \in {"backup_version", "recovery_key"}}
      [] op = "get_sessions" ->
            {"session"} \X session_rows(cipher, rows, arg[1])
      [] op = "get_inbound_group_session" ->
            {"inbound"} \X
            {r \in rows.inbound :
                /\ r.room_id = EncodeKey(cipher, "cryptostore_inbound_group_session:room_id",
                                         Raw(arg[1]))
                /\ r.sender_key = EncodeKey(cipher,
                                            "cryptostore_inbound_group_session:sender_key",
                                            Raw(arg[2]))
                /\ r.session_id = EncodeKey(cipher,
                                            "cryptostore_inbound_group_session:session_id",
                                            Raw(arg[3]))}
      [] op = "get_outbound_group_sessions" ->
            {"outbound"} \X
            {r \in rows.outbound :
                r.room_id = EncodeKey(cipher, "cryptostore_inbound_group_session:room_id",
                                      Raw(arg[1]))}
      [] op = "get_device" ->
            {"device"} \X
            {r \in rows.device :
                /\ r.user_id = EncodeKey(cipher, "cryptostore_device:user_id", Raw(arg[1]))
                /\ r.device_id = EncodeKey(cipher, "cryptostore_device:device_id",
                                           Raw(arg[2]))}
      [] op = "get_user_identity" ->
            {"identity"} \X
            {r \in rows.identity :
                r.user_id = EncodeKey(cipher, "cryptostore_identity:user_id", Raw(arg[1]))}
      [] op = "get_outgoing_secret_requests" ->
            {"gossip"} \X
            {r \in rows.gossip :
                r.request_id = EncodeKey(cipher, "cryptostore_gossip_request:request_id",
                                         Raw(arg[1]))}
      [] op = "get_secret_request_by_info" ->
            {"gossip"} \X info_rows(cipher, rows, arg[1])

\* the value of the key cannot be decoded: a row of it is unreadable (of the
\* rows that share an info key the call is handed one, so all of them are)
CannotBeDecoded(op, found) ==
    /\ found # {}
    /\ IF op = "get_secret_request_by_info"
       THEN \A x \in found : ~Readable(cipher, x[1], x[2])
       ELSE \E x \in found : ~Readable(cipher, x[1], x[2])

\* the finished call answered absent for the key, or for one of the two
\* backup keys
AnswersAbsent(t, key) ==
    /\ task[t].status = "Ok"
    /\ IF task[t].op = "load_backup_keys"
       THEN task[t].val[1][key] = NoneV
       ELSE task[t].val = <<NoneV>>

\* the load and get calls of ops answer absent only when the key has no row,
\* and fail when the store is locked or the key's value cannot be decoded
AbsenceVsFailure(ops) ==
    \A t \in Tasks :
        IsDone(t) /\ task[t].op \in ops
        => LET rows == Unwrap(task[t].db0)
               found == RowsOfKey(task[t].op, task[t].arg, rows)
           IN  /\ task[t].locked => task[t].status = "Err"
               /\ IF task[t].op = "load_backup_keys"
                  THEN \A key \in {"backup_version", "recovery_key"} :
                          AnswersAbsent(t, key) => ~\E x \in found : x[2].key = key
                  ELSE AnswersAbsent(t, "") => found = {}
               /\ CannotBeDecoded(task[t].op, found) => task[t].status = "Err"

\* C18: every load/get operation returns absent only when no row exists for
\* the key, and returns an error, never absent and never a value, when a row
\* exists but cannot be decoded or when the store cannot serve the request.
C18_AbsenceVsFailure == AbsenceVsFailure(LoadOps)

\* C19: a returned call of a fallible facade method whose repository call
\* failed, with whichever error, is reported as the Backend error, and the
\* facade reports success only when the repository call succeeded, with the
\* value the repository call returned.
C19_FacadeBackend ==
    \A t \in Tasks :
        IsDone(t) /\ task[t].status # "Dropped"
        => /\ task[t].status \in {"Ok", "Err"}
           /\ task[t].status = "Err"
              => /\ task[t].err \in {"Locked", "MissingAccountInfo", "Backend",
                                     "Envelope", "Pickle", "Sign"}
                 /\ CryptoStore(t).status = "Err"
                 /\ CryptoStore(t).err = "Backend"
           /\ CryptoStore(t).status = "Ok"
              => task[t].status = "Ok" /\ CryptoStore(t).val = task[t].val

\* a cross-signing identity that did not restore, reported by the facade
C19_SignReported ==
    \E t \in Tasks :
        /\ IsDone(t)
        /\ task[t].op = "load_identity"
        /\ task[t].err = "Sign"
        /\ CryptoStore(t).err = "Backend"


\* the primary and secondary lookup columns of the entity tables
LookupCols(table) ==
    CASE table = "session" -> {"sender_key"}
      [] table = "inbound" -> {"room_id", "sender_key", "session_id"}
      [] table = "outbound" -> {"room_id"}
      [] table = "device" -> {"user_id", "device_id"}
      [] table = "identity" -> {"user_id"}
      [] table = "gossip" -> {"recipient_id", "request_id", "info_key"}
      [] table = "tracked" -> {"user_id"}
      [] table = "hash" -> {"sender_key", "hash"}

\* with a cipher installed no lookup column of the tables holds the raw bytes
LookupColsBlinded(tables) ==
    IsSome(cipher)
    => \A table \in tables : \A r \in db[table] : \A col \in LookupCols(table) :
          r[col] # Raw(r[col].b)

\* C21: when a cipher is installed, every value in a lookup column of every
\* entity table (sessions, inbound and outbound group sessions, devices,
\* identities, gossip requests, tracked users, message hashes) is the
\* output of the key-blinding function and never the raw domain value.
C21_LookupColumnsBlinded ==
    LookupColsBlinded({"session", "inbound", "outbound", "device", "identity",
                       "gossip", "tracked", "hash"})


EntityTables ==
    {"session", "inbound", "outbound", "device", "identity", "gossip", "tracked", "hash"}

\* the lookup columns of a set of tables, each with its table
ColumnsOf(tables) == UNION {{table} \X LookupCols(table) : table \in tables}

\* with a cipher installed, one domain value held in two different columns
\* of the tables has two different at-rest keys
TagsSeparate(tables) ==
    IsSome(cipher)
    => \A x \in ColumnsOf(tables), y \in ColumnsOf(tables) :
          x # y
          => \A r1 \in db[x[1]], r2 \in db[y[1]] :
                r1[x[2]].b = r2[y[2]].b => r1[x[2]] # r2[y[2]]

\* C22: each logical lookup column is blinded under a tag of its own, so the
\* same domain value stored in two different columns, in the same or in
\* different tables, never has equal at-rest keys when a cipher is installed.
C22_TagSeparation == TagsSeparate(EntityTables)


\* the cache entry of the key of a cached read, in the caches d
CacheEntry(d, op, arg) ==
    CASE op = "get_sessions" -> SessionStore_get(d.sessions, arg[1])
      [] op = "get_inbound_group_session" ->
            GroupSessionStore_get(d.group_sessions, arg[1], arg[2], arg[3])
      [] op = "get_device" -> DeviceStore_get(d.devices, arg[1], arg[2])

\* a finished read of ops on an unlocked store: with the key in the cache it
\* returned the cache entry, and no query could fail it; with the key not in
\* the cache, the value it fetched is in the cache when it returns
CacheFirst(ops) ==
    \A t \in Tasks :
        IsDone(t) /\ task[t].op \in ops /\ ~task[t].locked
        => LET hit == CacheEntry(Unwrap(task[t].data0), task[t].op, task[t].arg)
           IN  /\ IsSome(hit) => task[t].status = "Ok" /\ task[t].val = <<hit>>
               /\ ~IsSome(hit) /\ task[t].status = "Ok" /\ task[t].val # <<NoneV>>
                  => CacheEntry(data, task[t].op, task[t].arg) = task[t].val[1]

\* C23: get_sessions, get_inbound_group_session and get_device consult the
\* cache first and fall back to the database only on a miss, inserting the
\* fetched value into the cache before returning, so that a second read of
\* the key is served from the cache without a database query.
C23_CacheFirstReads ==
    CacheFirst({"get_sessions", "get_inbound_group_session", "get_device"})


\* C24: with the codec fixed (a cipher installed, or plaintext), decoding
\* the bytes encode_value produced for a value V succeeds and yields V; and
\* in plaintext mode encode_key returns its input bytes unchanged under
\* every tag.
C24_CodecInverse ==
    \A t \in Tasks :
        IsDone(t)
        => /\ task[t].op = "decode_value"
              => \A value \in CodecValues :
                    task[t].arg[1] = EncodeValue(cipher, value)
                    => task[t].status = "Ok" /\ task[t].val = <<value>>
           /\ task[t].op = "encode_value"
              => /\ DecodeValue(cipher, task[t].val[1]).ok
                 /\ DecodeValue(cipher, task[t].val[1]).val = <<task[t].arg[1]>>
           /\ task[t].op = "encode_key" /\ ~IsSome(cipher)
              => task[t].val = <<Raw(task[t].arg[2])>>

\* a value encoded by one call and decoded by another under the cipher
C24_SealedRoundTrip ==
    /\ IsSome(cipher)
    /\ IsDone("t1") /\ task["t1"].op = "encode_value"
    /\ IsDone("t2") /\ task["t2"].op = "decode_value"
    /\ task["t2"].arg = task["t1"].val
    /\ task["t2"].val = task["t1"].arg


\* the users that have a row in the tracked-user table
PersistedTracked(rows) ==
    {Unwrap(DecodeValue(cipher, r.tracked_user_data).val).user_id : r \in rows.tracked}

\* C25: when update_tracked_user(u, dirty) has failed because the database
\* write failed, tracked_users and users_for_key_query are as they were
\* before the call, and u is not tracked in memory while absent from storage.
C25_FailedUpdateKeepsSets ==
    \A t \in Tasks :
        /\ task[t].op = "update_tracked_user"
        /\ IsDone(t)
        /\ task[t].status = "Err"
        /\ task[t].err = "Backend"
        => /\ data.tracked_users = Unwrap(task[t].data0).tracked_users
           /\ data.users_for_key_query = Unwrap(task[t].data0).users_for_key_query
           /\ task[t].arg[1] \in data.tracked_users
              => task[t].arg[1] \in PersistedTracked(db)


\* the two sets load_tracked_users builds from all the rows of a database,
\* fetched in some order
Loaded(rows) ==
    load_tracked_users(cipher, NewData, CHOOSE fetched \in Orderings(rows.tracked) : TRUE)

\* an update_tracked_user call of t returns Ok in this step
UpdateReturnsOk(t) ==
    /\ task[t].op = "update_tracked_user"
    /\ task[t].pc = "save"
    /\ task'[t].pc = "done"
    /\ task'[t].status = "Ok"

\* C26: what a reopen and unlock load from storage is, for tracked_users, the
\* set of all users ever updated successfully and, for users_for_key_query,
\* the set of users whose last successful update had dirty = true: the load
\* of an empty table is empty, each successful update_tracked_user(u, dirty)
\* adds u to the first set and puts it into or takes it out of the second,
\* and nothing else changes what is loaded.  The order of the rows does not
\* matter, load_tracked_users never removes an entry, and a store just
\* unlocked holds nothing that is not loaded from its rows.
C26_TrackedUsersReload ==
    /\ [](/\ db.tracked = {} => /\ Loaded(db).tracked_users = {}
                                 /\ Loaded(db).users_for_key_query = {}
          /\ \A fetched \in Orderings(db.tracked) :
                /\ load_tracked_users(cipher, NewData, fetched) = Loaded(db)
                /\ \A k \in 1..Len(fetched) :
                      LET before == load_tracked_users(cipher, NewData,
                                                       SubSeq(fetched, 1, k - 1))
                          after == load_tracked_users(cipher, NewData,
                                                      SubSeq(fetched, 1, k))
                      IN  /\ before.tracked_users \subseteq after.tracked_users
                          /\ before.users_for_key_query \subseteq after.users_for_key_query)
    /\ [][/\ \A t \in Tasks :
                UpdateReturnsOk(t)
                => /\ Loaded(db').tracked_users
                      = Loaded(db).tracked_users \cup {task[t].arg[1]}
                   /\ Loaded(db').users_for_key_query
                      = IF task[t].arg[2]
                        THEN Loaded(db).users_for_key_query \cup {task[t].arg[1]}
                        ELSE Loaded(db).users_for_key_query \ {task[t].arg[1]}
          /\ (\A t \in Tasks : ~UpdateReturnsOk(t)) => Loaded(db') = Loaded(db)
          /\ ~unlocked /\ unlocked'
             => /\ data'.tracked_users \subseteq Loaded(db).tracked_users
                /\ data'.users_for_key_query \subseteq Loaded(db).users_for_key_query
                /\ data'.users_for_key_query \subseteq data'.tracked_users]_vars

\* a store reopened after two updates that holds both users, one of them dirty
C26_ReloadedBoth ==
    /\ unlocked
    /\ nreopens > 0
    /\ nwrites = 2
    /\ AllIdle
    /\ data.tracked_users = Users
    /\ data.users_for_key_query = {"@u1:s"}
    /\ data.tracked_users = Loaded(db).tracked_users
    /\ data.users_for_key_query = Loaded(db).users_for_key_query


\* C27: a save_changes that holds an account and Olm sessions does not fail
\* for a missing account, whatever the store held before; when it has
\* returned Ok the AccountInfo slot is set; the slot stays set for the rest
\* of the run; and get_sessions and get_outbound_group_sessions fail with
\* MissingAccountInfo only when the slot was empty, hence never in a run after
\* such a save has committed.
C27_AccountBeforeSessions ==
    /\ [](\A t \in Tasks :
            /\ /\ task[t].op = "save_changes"
               /\ IsDone(t)
               /\ IsSome(task[t].arg[1].account)
               /\ task[t].arg[1].sessions # <<>>
               => /\ task[t].err # "MissingAccountInfo"
                  /\ task[t].status = "Err" /\ ~task[t].locked => task[t].err = "Backend"
                  /\ task[t].status = "Ok" => IsSome(data.account)
            /\ /\ task[t].op \in {"get_sessions", "get_outbound_group_sessions"}
               /\ IsDone(t)
               /\ task[t].err = "MissingAccountInfo"
               => ~IsSome(Unwrap(task[t].data0).account))
    /\ [][IsSome(data.account) /\ nreopens' = nreopens => IsSome(data'.account)]_vars

\* in the run of a committed batch with an account and a session, a
\* get_sessions that missed the cache and a get_outbound_group_sessions that
\* found the session of the batch
C27_ReadsAfterBatch ==
    /\ nreopens = 0
    /\ nwrites = 1
    /\ Committed("save_account_txn", AccountA)
    /\ \E t \in Tasks :
          /\ IsDone(t)
          /\ task[t].status = "Ok"
          /\ \/ /\ task[t].op = "get_sessions"
                /\ task[t].arg = <<"k2">>
             \/ /\ task[t].op = "get_outbound_group_sessions"
                /\ task[t].val # <<NoneV>>


\* the devices whose row, as save_device writes it, is in the device table
PersistedDevices(rows) ==
    {x \in DeviceInputs : save_device(cipher, NewData, x).stmt.row \in rows.device}

\* the persisted devices after a change-set commits: a device deleted by
\* the change-set is gone, a device it saved is as last saved (changed
\* before new), every other device is as it was
DevicesAfter(devices, changes) ==
    LET saved == changes.devices.changed \o changes.devices.new
        Deleted(x) == \E i \in DOMAIN changes.devices.deleted :
                          SameDevice(changes.devices.deleted[i], x)
        LastSaved(x) == \E i \in DOMAIN saved :
                           /\ saved[i] = x
                           /\ \A k \in DOMAIN saved : k > i => ~SameDevice(saved[k], x)
        Touched(x) == \E i \in DOMAIN saved : SameDevice(saved[i], x)
    IN  {x \in DeviceInputs :
            /\ ~Deleted(x)
            /\ IF Touched(x) THEN LastSaved(x) ELSE x \in devices}

\* what get_device and get_user_devices answer is what is persisted
DeviceReadsPersisted ==
    \A t \in Tasks :
        /\ (IsDone(t) /\ task[t].op = "get_device" /\ task[t].status = "Ok") =>
              LET hit == {x \in PersistedDevices(db) :
                            /\ x.user_id = task[t].arg[1]
                            /\ x.device_id = task[t].arg[2]}
              IN  /\ Cardinality(hit) <= 1
                  /\ task[t].val[1] = IF hit = {} THEN NoneV
                                      ELSE Some(CHOOSE x \in hit : TRUE)
        /\ (IsDone(t) /\ task[t].op = "get_user_devices" /\ task[t].status = "Ok") =>
              LET mine == {x \in PersistedDevices(db) : x.user_id = task[t].arg[1]}
                  map == task[t].val[1]
              IN  /\ DOMAIN map = {x.device_id : x \in mine}
                  /\ \A id \in DOMAIN map : map[id] \in mine /\ map[id].device_id = id

\* a commit changes the device table as its change-set says and leaves no
\* deleted device cached; no other step changes the device table
DeviceCommitStep ==
    LET committing == {t \in Tasks :
                         /\ InFlight(t) /\ task[t].op = "save_changes"
                         /\ IsDone(t)' /\ task'[t].status = "Ok"}
    IN  IF committing = {} THEN db'.device = db.device
        ELSE \A t \in committing :
               /\ PersistedDevices(db') =
                      DevicesAfter(PersistedDevices(db), task[t].arg[1])
               /\ Cardinality(db'.device) = Cardinality(PersistedDevices(db'))
               /\ \A i \in DOMAIN task[t].arg[1].devices.deleted :
                     LET x == task[t].arg[1].devices.deleted[i]
                     IN  DeviceStore_get(data'.devices, x.user_id, x.device_id) = NoneV

\* C28: after a committed change-set get_device returns a device iff its
\* latest committed change was a save, get_user_devices returns exactly the
\* devices persisted for that user keyed by device id, a device both saved
\* and deleted by one change-set is absent from the database and from the
\* device cache, and deleting one device leaves the others unchanged.
C28_DeviceSavesAndDeletes ==
    /\ []DeviceReadsPersisted
    /\ [][DeviceCommitStep]_vars

\* a change-set that saved and deleted one device has committed while
\* another device stays persisted
C28_SavedAndDeletedInOne ==
    /\ IsDone("t1") /\ task["t1"].op = "save_changes" /\ task["t1"].status = "Ok"
    /\ \E i \in DOMAIN task["t1"].arg[1].devices.new :
       \E j \in DOMAIN task["t1"].arg[1].devices.deleted :
          task["t1"].arg[1].devices.new[i] = task["t1"].arg[1].devices.deleted[j]
    /\ PersistedDevices(db) # {}

\* C29: a get_sessions call that fails while reading the rows of its sender
\* key (row fetch or decode error) leaves no entry for that sender key in
\* the session cache, so no later call gets a partial list as a cache hit.
C29_NoPartialSessions ==
    \A t \in Tasks :
        (/\ IsDone(t) /\ task[t].op = "get_sessions"
         /\ task[t].status = "Err" /\ task[t].err \in {"Backend", "Envelope"}) =>
            SessionStore_get(data.sessions, task[t].arg[1]) = NoneV

IsPrefix(s, full) == Len(s) <= Len(full) /\ \A i \in DOMAIN s : s[i] = full[i]

\* C30: there is one shared list per sender key.  In every interleaving of
\* concurrent get_sessions and save_session calls the list of a sender key
\* never holds the same session (by session id) twice, and what a caller
\* got as Some is that list: the sessions it was handed are the first
\* sessions of the list the cache holds under the sender key.
C30_SingleSharedList ==
    /\ \A k \in SenderKeys :
       \A i, j \in DOMAIN data.sessions[k] :
          data.sessions[k][i].session_id = data.sessions[k][j].session_id => i = j
    /\ \A t \in Tasks :
          (/\ IsDone(t) /\ task[t].op = "get_sessions" /\ task[t].status = "Ok"
           /\ IsSome(task[t].val[1])) =>
              IsPrefix(Unwrap(task[t].val[1]), data.sessions[task[t].arg[1]])

\* a get_sessions in its loop has added the session of a row that a
\* save_session of a transaction still open has added too
C30_ConcurrentAdds ==
    \E a, b \in Tasks :
        /\ task[a].pc = "rows"
        /\ InFlight(b)
        /\ \E i \in DOMAIN task[a].txn, j \in DOMAIN task[b].txn :
              /\ task[b].txn[j].fn = "save_session"
              /\ task[b].txn[j].row = task[a].txn[i]

\* C31: when two concurrent update_tracked_user calls on one user with
\* different dirty flags have both completed successfully, the user is in
\* users_for_key_query iff the persisted tracked-user row has dirty = TRUE,
\* so a reopen yields the same users_for_key_query.
C31_KeyQueryAgreesWithStorage ==
    (/\ \A t \in Tasks :
           /\ IsDone(t) /\ task[t].op = "update_tracked_user" /\ task[t].status = "Ok"
           /\ task[t].arg[1] = task["t1"].arg[1]
     /\ task["t1"].arg[2] # task["t2"].arg[2]) =>
        (task["t1"].arg[1] \in data.users_for_key_query
            <=> task["t1"].arg[1] \in Loaded(db).users_for_key_query)

\* the row a cached inbound group session would have
InboundRow(session) == save_inbound_group_session(cipher, NewData, session).stmt.row

\* C32: under any interleaving of save_changes, reset_backup_state and a
\* get_inbound_group_session that fills the cache from its row, once the
\* calls have completed the cached session equals the persisted one, so
\* their backed_up flags agree.  Stated for calls that all succeeded: no
\* task is in a call, a get_inbound_group_session has answered Ok from the
\* row it fetched and the other task holds the Ok of its write.
C32_CachedEqualsPersisted ==
    \A a, b \in Tasks :
        (/\ \A t \in Tasks : IsDone(t) /\ task[t].status = "Ok"
         /\ task[a].op = "get_inbound_group_session" /\ task[a].txn # <<>>
         /\ task[b].op \in {"save_changes", "reset_backup_state"}) =>
            \A g \in data.group_sessions : InboundRow(g) \in db.inbound

\* C33: when backup_version and recovery_key are only ever written together
\* in one change-set, a load_backup_keys running concurrently with such
\* save_changes calls returns a pair written by one change-set, or both
\* absent: never the version of one with the recovery key of another.
C33_BackupKeysFromOneChangeSet ==
    \A t \in Tasks :
        (IsDone(t) /\ task[t].op = "load_backup_keys" /\ task[t].status = "Ok") =>
            LET keys == task[t].val[1]
            IN  \/ keys.backup_version = NoneV /\ keys.recovery_key = NoneV
                \/ \E p \in BackupKeyPairs :
                      /\ keys.backup_version = Some(p.backup_version)
                      /\ keys.recovery_key = Some(p.recovery_key)

ReadOps ==
    {"load_account", "load_identity", "load_backup_keys", "get_sessions",
     "get_inbound_group_session", "get_inbound_group_sessions",
     "inbound_group_session_counts", "inbound_group_sessions_for_backup",
     "get_outbound_group_sessions", "get_device", "get_user_devices",
     "get_user_identity", "is_message_known", "get_outgoing_secret_requests",
     "get_secret_request_by_info", "get_unsent_secret_requests"}

\* the caches of e hold what those of d hold, and AccountInfo is not cleared
OnlyAdds(d, e) ==
    /\ IsSome(d.account) => IsSome(e.account)
    /\ \A k \in SenderKeys : IsPrefix(d.sessions[k], e.sessions[k])
    /\ d.group_sessions \subseteq e.group_sessions
    /\ e.devices = d.devices
    /\ e.tracked_users = d.tracked_users
    /\ e.users_for_key_query = d.users_for_key_query

\* C34: read operations never change persistent state.  A step in which a
\* read runs leaves every row of the database as it was and may only add
\* entries to the caches or set AccountInfo, and the rows change only in a
\* step of a save_changes call.
C34_ReadsLeaveRows ==
    [][/\ \A t \in Tasks :
             (IsIdle(t) /\ task'[t].op \in ReadOps) =>
                 /\ db' = db
                 /\ OnlyAdds(data, data')
       /\ db' # db => \E t \in Tasks : InFlight(t) /\ task[t].op = "save_changes"]_vars

\* a read has answered from rows every table holds and has filled a cache
C34_ReadFilledCache ==
    /\ \A table \in DOMAIN db : table # "tracked" => db[table] # {}
    /\ \E t \in Tasks :
          /\ IsDone(t) /\ task[t].op \in ReadOps /\ task[t].status = "Ok"
          /\ task[t].data0 # <<data>>
          /\ task[t].db0 = <<db>>
====
